---- MODULE Spec2Model ----
(***************************************************************************)
(* Volcano Hybrid BLE integration: the VolcanoAPI link manager, its        *)
(* characteristic decoding and its state cache (src/volcano/api.py), and   *)
(* the polling coordinator with its session detection and dynamic poll     *)
(* interval (src/__init__.py).                                             *)
(*                                                                         *)
(* One host task calls the API; connect is a multi-step coroutine, and the *)
(* BLE library's callbacks (involuntary disconnect, notifications) may run *)
(* at any of its await points.  Temperatures are integers in tenths of a   *)
(* degree Celsius; a GATT payload is a sequence of bytes.                  *)
(***************************************************************************)
EXTENDS Integers, Sequences, FiniteSets, TLC

VARIABLES
    client,               \* self._client: "none" or "client" (a BleakClient)
    client_conn,          \* BleakClient.is_connected of that client
    sub_temp,             \* the client's subscription to CHAR_CURRENT_TEMP
    sub_status,           \* the client's subscription to CHAR_STATUS_REGISTER
    flag,                 \* self._is_connected
    disconnect_callback,  \* self._disconnect_callback is set
    status_callback,      \* self._status_update_callback is set
    current_temperature,  \* self._current_temperature (tenths)
    target_temperature,   \* self._target_temperature (tenths)
    heat_on,              \* self._heat_on
    fan_on,               \* self._fan_on
    pc,                   \* where the connect coroutine stands
    attempt,              \* connect: the loop variable
    max_retries,          \* connect: its argument
    attempts_started,     \* connect: attempts begun in the current call
    sleeps,               \* connect: backoff sleeps taken in the current call
    last_err,             \* connect: the error of the latest failed attempt
    setup,                \* connect: how _setup_notifications ended
    out,                  \* what the latest step did: operation, result, GATT
                          \* operations issued, callbacks invoked, payload, value
    poll_pc,              \* where _async_update_data stands
    current_temp,         \* _async_update_data: current_temp (Null: None)
    target_temp,          \* _async_update_data: target_temp (Null: None)
    last_temp,            \* self._last_temp (Null: None)
    last_target_temp,     \* self._last_target_temp (Null: None)
    last_fan_state,       \* self._last_fan_state
    session_start_time,   \* self._session_start_time (Null: None)
    last_session_end_time, \* self._last_session_end_time (Null: None)
    session_durations,    \* self._session_durations
    sessions_today,       \* self._sessions_today
    total_sessions,       \* self._total_sessions
    device_info_counter,  \* self._device_info_counter
    cached_device_info,   \* self._cached_device_info; Null before it is set
    coord_data,           \* self.data: the snapshot the coordinator holds
    update_interval,      \* self.update_interval, in seconds
    now,                  \* datetime.now(), in poll periods
    bus_last,             \* hass.bus: the latest session event and the latest
                          \* fan event fired so far, and how many session
                          \* events of each kind were fired
    cycle,                \* the current (or latest) poll cycle: how it began,
                          \* the API calls it made, the events it fired, how it
                          \* ended
    actions,              \* the entity actions (service calls) in progress
    ent_out,              \* how the latest entity action ended
    timer_task,           \* VolcanoFan._timer_task: the task it refers to
                          \* (0: None)
    timers,               \* the fan-off timer tasks created so far
    gatt                  \* the tasks with a GATT operation in flight

vars == <<client, client_conn, sub_temp, sub_status, flag, disconnect_callback,
          status_callback, current_temperature, target_temperature, heat_on,
          fan_on, pc, attempt, max_retries, attempts_started, sleeps, last_err,
          setup, out, poll_pc, current_temp, target_temp, last_temp,
          last_target_temp, last_fan_state, session_start_time,
          last_session_end_time, session_durations, sessions_today,
          total_sessions, device_info_counter, cached_device_info,
          coord_data, update_interval, now, bus_last, cycle, actions,
          ent_out, timer_task, timers, gatt>>

apiVars == <<client, client_conn, sub_temp, sub_status, flag>>
cacheVars == <<current_temperature, target_temperature, heat_on, fan_on>>
cbVars == <<disconnect_callback, status_callback>>
connVars == <<pc, attempt, max_retries, attempts_started, sleeps, last_err, setup>>
\* the locals of a poll cycle
localVars == <<current_temp, target_temp>>
\* the session tracking of the coordinator
trackVars == <<last_temp, last_target_temp, last_fan_state, session_start_time,
               last_session_end_time, session_durations, sessions_today,
               total_sessions>>
\* the device-information slow path
infoVars == <<device_info_counter, cached_device_info>>
\* what the coordinator holds between cycles
heldVars == <<coord_data, update_interval>>
coordVars == <<poll_pc, localVars, trackVars, infoVars, heldVars, now,
               bus_last, cycle>>
\* the entity platforms and the tasks they run
entVars == <<actions, ent_out, timer_task, timers, gatt>>

------------------------------------------------------------------------------
(* Bounds of the model *)

\* the largest max_retries handed to connect (the code's default is 3, the
\* coordinator passes 2)
MaxRetries == 3

(* Program constants *)
STATUS_HEAT_ON_MASK == 32      \* 0x0020
STATUS_FAN_ON_MASK == 8192     \* 0x2000
LEGACY_HEAT_MASK == 1          \* 0x01 in get_device_state
LEGACY_FAN_MASK == 2           \* 0x02 in get_device_state
MIN_TEMP == 40
MAX_TEMP == 230
MIN_BRIGHTNESS == 0
MAX_BRIGHTNESS == 100
\* the coordinator: connect(max_retries=2) in the poll cycle
POLL_MAX_RETRIES == 2
\* the update intervals, in seconds
base_update_interval == 5
active_update_interval == 2
fast_update_interval == 1
COOLING_INTERVAL == 3
\* the thresholds of the interval table, in degrees
NEAR_TARGET_DEGREES == 10
COOLING_DEGREES == 50
\* the thresholds of the session detection, in degrees
START_COLD_DEGREES == 50
START_WARM_DEGREES == 60
START_TARGET_DEGREES == 100
REACHED_MARGIN_DEGREES == 5
END_COLD_DEGREES == 50
END_HOT_DEGREES == 80
END_FAN_DEGREES == 100
\* the cap of the list of session durations
MAX_SESSION_DURATIONS == 100
\* the device information is fetched every 120 cycles
DEVICE_INFO_CYCLES == 120
\* the temperature getters of the API attempt one reconnect
GETTER_MAX_RETRIES == 1

(* Inputs *)
\* temperatures handed to set_target_temperature, in tenths of a degree
TempInputs == {399, 400, 2300, 2301}
\* brightness values handed to set_screen_brightness
BrightnessInputs == {-1, 0, 70, 100, 101}
\* status-register payloads: empty, one byte (short), two bytes (0x0000,
\* 0x0020, 0x2000, 0x0003, 0xFFFF), three bytes
StatusPayloads ==
    {<<>>, <<1>>, <<0, 0>>, <<32, 0>>, <<0, 32>>, <<3, 0>>, <<255, 255>>,
     <<32, 32, 7>>}
\* what a read of the status register does: it raises, or returns a payload
StatusReads ==
    {[ok |-> FALSE, data |-> <<>>]}
        \cup {[ok |-> TRUE, data |-> p] : p \in StatusPayloads}
\* current-temperature payloads: short, 185.5 degrees
TempPayloads == {<<63>>, <<63, 7>>}
\* the device-information reads
InfoReads == {"get_ble_firmware_version", "get_volcano_firmware_version",
              "get_serial_number", "get_hours_of_operation",
              "get_minutes_of_operation"}

------------------------------------------------------------------------------
(* Codec *)

\* Python's a & b on non-negative integers
RECURSIVE BitAnd(_, _)
BitAnd(a, b) ==
    IF a = 0 \/ b = 0 THEN 0
    ELSE (a % 2) * (b % 2) + 2 * BitAnd(a \div 2, b \div 2)

\* data[0] | (data[1] << 8), and struct.unpack("<H", data[:2])[0]
LE16(data) == data[1] + data[2] * 256

\* bool(decoded_status & STATUS_HEAT_ON_MASK)
DecodeHeat(decoded_status) == BitAnd(decoded_status, STATUS_HEAT_ON_MASK) # 0

\* bool(decoded_status & STATUS_FAN_ON_MASK)
DecodeFan(decoded_status) == BitAnd(decoded_status, STATUS_FAN_ON_MASK) # 0

\* get_device_state: bool(status & 0x01) on status_data[0]
StateHeat(status) == BitAnd(status, LEGACY_HEAT_MASK) # 0

\* get_device_state: bool(status & 0x02) on status_data[0]
StateFan(status) == BitAnd(status, LEGACY_FAN_MASK) # 0

\* the record of one step: the operation, how it ended, the GATT operations it
\* issued, the disconnect and state-change callbacks it invoked, the payload
\* read, written or received, the value returned, the argument passed
Out(op, res, io, cb, scb, data, ret) ==
    [op |-> op, res |-> res, io |-> io, cb |-> cb, scb |-> scb,
     data |-> data, ret |-> ret, arg |-> <<>>]

\* the record of a step of an operation called with argument a
OutArg(o, a) == [o EXCEPT !.arg = <<a>>]

\* is_connected as the bare flag, without the client's own report
is_connected_flag_only == flag

\* the is_connected property: the flag and the client's own report
is_connected == flag /\ client # "none" /\ client_conn

------------------------------------------------------------------------------
(* Values of the coordinator *)

\* None, where a temperature or a time is expected
Null == -1

\* degrees Celsius in the unit of the model, tenths of a degree
Deg(c) == c * 10

\* a snapshot, the value _async_update_data returns; kind "none" is
\* self.data before the first refresh (None)
Snapshot(kind, connected, cur, tgt, heat, fan) ==
    [kind |-> kind, connected |-> connected, current_temperature |-> cur,
     target_temperature |-> tgt, heat_on |-> heat, fan_on |-> fan]

\* self.data of a new coordinator
NoData == Snapshot("none", FALSE, Null, Null, FALSE, FALSE)

\* the snapshot returned when the device cannot be reached
DisconnectedSnapshot ==
    Snapshot("disconnected", FALSE, Null, Null, FALSE, FALSE)

\* the dictionary get_device_info_data returns is modelled by a number: NoInfo
\* is the empty dictionary (which is also what a failed read returns), every
\* other number a dictionary with keys
NoInfo == 0

\* the record of a poll cycle: is_connected when it began, the API calls made
\* in order (with the connect calls and the GATT reads made inside them), the
\* events fired in order, how it ended, is_connected at its call of
\* get_current_temperature, the session statistics it put into its snapshot
\* (average_session_duration, last_session_duration), whether it called
\* get_device_info_data, and the device information it put into its snapshot
\* (NoInfo where it put none)
Cycle(began, calls, events, res, cur_conn) ==
    [began |-> began, calls |-> calls, events |-> events, res |-> res,
     cur_conn |-> cur_conn, stats |-> <<>>, fetch |-> FALSE,
     info |-> NoInfo]

\* no cycle yet
NoCycle == Cycle("none", <<>>, <<>>, "none", "none")

\* the fan-off timer tasks a run may create
MaxTimers == 2
\* the entity actions that may be in progress at once
MaxActions == 2

\* no entity action in progress
NoAction == [kind |-> "none", todo |-> <<>>, arg |-> 0, pc |-> "idle"]

\* no entity action has ended yet
NoEntOut == [kind |-> "none", res |-> "none", err |-> "none", refresh |-> FALSE]

------------------------------------------------------------------------------
(* VolcanoAPI.__init__ and VolcanoCoordinator.__init__ *)
Init ==
    /\ client = "none"
    /\ client_conn = FALSE
    /\ sub_temp = FALSE
    /\ sub_status = FALSE
    /\ flag = FALSE
    /\ disconnect_callback = FALSE
    /\ status_callback = FALSE
    /\ current_temperature = 0
    /\ target_temperature = 0
    /\ heat_on = FALSE
    /\ fan_on = FALSE
    /\ pc = "idle"
    /\ attempt = 0
    /\ max_retries = 0
    /\ attempts_started = 0
    /\ sleeps = 0
    /\ last_err = "none"
    /\ setup = "none"
    /\ out = Out("init", "none", <<>>, 0, 0, <<>>, <<>>)
    /\ poll_pc = "idle"
    /\ current_temp = Null
    /\ target_temp = Null
    /\ last_temp = Null
    /\ last_target_temp = Null
    /\ last_fan_state = FALSE
    /\ session_start_time = Null
    /\ last_session_end_time = Null
    /\ session_durations = <<>>
    /\ sessions_today = 0
    /\ total_sessions = 0
    /\ device_info_counter = 0
    /\ cached_device_info = Null
    /\ coord_data = NoData
    /\ update_interval = base_update_interval
    /\ now = 0
    /\ bus_last = [session |-> "none", fan |-> "none", started |-> 0, ended |-> 0]
    /\ cycle = NoCycle
    /\ actions = [s \in 1..MaxActions |-> NoAction]
    /\ ent_out = NoEntOut
    /\ timer_task = 0
    /\ timers = [i \in 1..MaxTimers |-> "none"]
    /\ gatt = {}
------------------------------------------------------------------------------
(* connect: for attempt in range(max_retries) *)

\* line 85 and 91: attempt == max_retries - 1
IsLastAttempt(a, m) == a = m - 1

\* the backoff guard off by one: a sleep after the last attempt too
NeedsBackoffAlways(a, m) == a < m

\* line 105: attempt < max_retries - 1
NeedsBackoff(a, m) == a < m - 1

\* the for statement: the next value of the loop variable is in range
InRange(a, m) == a < m

\* a step of connect that does not end the call
ConnectStep(name) == Out(name, "none", <<>>, 0, 0, <<>>, <<>>)

\* the call ends: it returns True or False, or raises VolcanoConnectionError
\* carrying err.  Its locals go; what it did stays on record: the error
\* carried, max_retries, the attempts started, the sleeps taken, and how
\* _setup_notifications ended.
ConnectReturn(res, err, started, slept, st) ==
    /\ pc' = "idle"
    /\ attempt' = 0
    /\ max_retries' = 0
    /\ attempts_started' = 0
    /\ sleeps' = 0
    /\ last_err' = "none"
    /\ setup' = "none"
    /\ out' = Out("connect", res, <<>>, 0, 0, <<>>,
                  <<err, max_retries, started, slept, st>>)

\* the end of one loop iteration: the next iteration, or return False
LoopNext(slept) ==
    IF InRange(attempt + 1, max_retries)
    THEN /\ pc' = "try"
         /\ attempt' = attempt + 1
         /\ sleeps' = slept
         /\ out' = ConnectStep("connect_next")
         /\ UNCHANGED <<max_retries, attempts_started, last_err, setup>>
    ELSE ConnectReturn("False", "none", attempts_started, slept, setup)

\* the call: the coordinator calls connect only when is_connected is false,
\* the config flow on a fresh object
ConnectCall(n) ==
    /\ pc = "idle"
    /\ ~is_connected
    /\ InRange(0, n)
    /\ pc' = "try"
    /\ max_retries' = n
    /\ attempt' = 0
    /\ attempts_started' = 0
    /\ sleeps' = 0
    /\ last_err' = "none"
    /\ setup' = "none"
    /\ out' = ConnectStep("connect_call")
    /\ UNCHANGED <<apiVars, cacheVars, cbVars>>

\* an except branch: the flag is cleared, the last attempt raises
ConnectExcept(err) ==
    /\ flag' = FALSE
    /\ IF IsLastAttempt(attempt, max_retries)
       THEN ConnectReturn("ConnectionError", err, attempts_started + 1, sleeps,
                          setup)
       ELSE /\ pc' = "cleanup"
            /\ last_err' = err
            /\ attempts_started' = attempts_started + 1
            /\ out' = ConnectStep("connect_try")
            /\ UNCHANGED <<attempt, max_retries, sleeps, setup>>

\* lines 57-74: resolve the device, create the client, await client.connect().
\* "bleak_error_connected" is client.connect() raising BleakError on a link
\* that is up, the case the clean-up tests for at line 97.
ConnectTry(o) ==
    /\ pc = "try"
    /\ \/ /\ o = "not_found"
          /\ UNCHANGED <<client, client_conn, sub_temp, sub_status>>
          /\ ConnectExcept("not_found")
       \/ /\ o = "bleak_error_connected"
          /\ client' = "client"
          /\ client_conn' = TRUE
          /\ sub_temp' = FALSE
          /\ sub_status' = FALSE
          /\ ConnectExcept("bleak_error")
       \/ /\ o \in {"bleak_error", "exception"}
          /\ client' = "client"
          /\ client_conn' = FALSE
          /\ sub_temp' = FALSE
          /\ sub_status' = FALSE
          /\ ConnectExcept(o)
       \/ /\ o = "not_connected"
          /\ client' = "client"
          /\ client_conn' = FALSE
          /\ sub_temp' = FALSE
          /\ sub_status' = FALSE
          /\ pc' = "cleanup"
          /\ attempts_started' = attempts_started + 1
          /\ out' = ConnectStep("connect_try")
          /\ UNCHANGED <<flag, attempt, max_retries, sleeps, last_err, setup>>
       \/ /\ o = "connected"
          /\ client' = "client"
          /\ client_conn' = TRUE
          /\ sub_temp' = FALSE
          /\ sub_status' = FALSE
          /\ pc' = "notify"
          /\ attempts_started' = attempts_started + 1
          /\ out' = Out("connect_try", "connected", <<>>, 0, 0, <<>>, <<>>)
          /\ UNCHANGED <<flag, attempt, max_retries, sleeps, last_err, setup>>
    /\ UNCHANGED <<cacheVars, cbVars>>

\* _setup_notifications without the subscription to the status register
SetupNotificationsTempOnly(o) ==
    /\ o = "ok" => client_conn
    /\ sub_temp' = (o \in {"ok", "status_fails"} /\ client_conn)
    /\ sub_status' = FALSE
    /\ setup' = IF o = "ok" THEN "ok" ELSE "failed"

\* _setup_notifications: start_notify for the temperature, then for the status
\* register; a failure of either is logged and swallowed.  A client that has
\* dropped meanwhile accepts no subscription.
SetupNotifications(o) ==
    /\ o = "ok" => client_conn
    /\ sub_temp' = (o \in {"ok", "status_fails"} /\ client_conn)
    /\ sub_status' = (o = "ok")
    /\ setup' = IF o = "ok" THEN "ok" ELSE "failed"

\* line 75: await self._setup_notifications()
ConnectNotify(o) ==
    /\ pc = "notify"
    /\ SetupNotifications(o)
    /\ pc' = "finish"
    /\ out' = Out("connect_notify", "none",
                  IF o = "temp_fails" THEN <<"start_notify">>
                  ELSE <<"start_notify", "start_notify">>, 0, 0, <<>>, <<>>)
    /\ UNCHANGED <<client, client_conn, flag, cacheVars, cbVars, attempt,
                   max_retries, attempts_started, sleeps, last_err>>

\* line 76: self._is_connected = True
SetConnectedFlag == flag' = TRUE

\* lines 76-78: set the flag, return True
ConnectFinish ==
    /\ pc = "finish"
    /\ SetConnectedFlag
    /\ ConnectReturn("True", "none", attempts_started, sleeps, setup)
    /\ UNCHANGED <<client, client_conn, sub_temp, sub_status, cacheVars, cbVars>>

\* a clean-up that leaves the handle in place
KeepClient == client' = client

\* line 102: self._client = None
ClearClient == client' = "none"

\* lines 95-106: drop the client of the failed attempt (closing it first if it
\* still reports connected; a failure of that close is ignored), back off
\* unless this was the last attempt
ConnectCleanup ==
    /\ pc = "cleanup"
    /\ ClearClient
    /\ client_conn' = FALSE
    /\ sub_temp' = FALSE
    /\ sub_status' = FALSE
    /\ IF NeedsBackoff(attempt, max_retries)
       THEN /\ pc' = "sleep"
            /\ out' = Out("connect_cleanup", "none",
                          IF client # "none" /\ client_conn
                          THEN <<"disconnect">> ELSE <<>>, 0, 0, <<>>, <<>>)
            /\ UNCHANGED <<attempt, max_retries, attempts_started, sleeps,
                           last_err, setup>>
       ELSE LoopNext(sleeps)
    /\ UNCHANGED <<flag, cacheVars, cbVars>>

\* line 106: await asyncio.sleep(2)
ConnectSleep ==
    /\ pc = "sleep"
    /\ LoopNext(sleeps + 1)
    /\ UNCHANGED <<apiVars, cacheVars, cbVars>>

------------------------------------------------------------------------------
(* disconnect and the disconnect callback *)

\* _handle_disconnect leaving the flag as it is
KeepConnectedFlag == flag' = flag

\* line 132: self._is_connected = False
ClearConnectedFlag == flag' = FALSE

\* lines 133-134: the registered callback, if there is one, is called
DisconnectCallbackCalls == IF disconnect_callback THEN 1 ELSE 0

\* _handle_disconnect, run by the client when the link drops
HandleDisconnect ==
    /\ client # "none"
    /\ client_conn
    /\ client_conn' = FALSE
    /\ sub_temp' = FALSE
    /\ sub_status' = FALSE
    /\ ClearConnectedFlag
    /\ out' = Out("_handle_disconnect", "none", <<>>, DisconnectCallbackCalls,
                  0, <<>>, <<>>)
    /\ UNCHANGED <<client, cacheVars, cbVars, connVars>>

\* set_disconnect_callback
SetDisconnectCallback ==
    /\ pc = "idle"
    /\ disconnect_callback' = TRUE
    /\ out' = Out("set_disconnect_callback", "none", <<>>, 0, 0, <<>>, <<>>)
    /\ UNCHANGED <<apiVars, cacheVars, status_callback, connVars>>

\* a finally clause that resets the flag and keeps the client handle
DisconnectFinallyFlagOnly ==
    /\ flag' = FALSE
    /\ client' = client

\* the finally clause of disconnect
DisconnectFinally ==
    /\ flag' = FALSE
    /\ client' = "none"

\* disconnect: stop the notifications and close the client when it is
\* connected; o is how that went ("stop_fails": stop_notify raises and is
\* swallowed, "close_fails": client.disconnect raises and is logged)
Disconnect(o) ==
    /\ pc = "idle"
    /\ IF client # "none" /\ client_conn
       THEN /\ o \in {"ok", "stop_fails", "close_fails", "stop_and_close_fail"}
            /\ out' = Out("disconnect", "none",
                          IF o \in {"ok", "close_fails"}
                          THEN <<"stop_notify", "stop_notify">>
                          ELSE <<"stop_notify">>, 0, 0, <<>>, <<o>>)
       ELSE /\ o = "skip"
            /\ out' = Out("disconnect", "none", <<>>, 0, 0, <<>>, <<o>>)
    /\ DisconnectFinally
    /\ client_conn' = FALSE
    /\ sub_temp' = FALSE
    /\ sub_status' = FALSE
    /\ UNCHANGED <<cacheVars, cbVars, connVars>>
------------------------------------------------------------------------------
(* writes *)

\* the guard reading the bare flag instead of is_connected
NotConnectedFlagOnly == ~flag

\* if not self.is_connected: raise VolcanoConnectionError("Device not connected")
NotConnected == ~is_connected

\* what a public operation reports when it finds the device not connected
FailFast(op) ==
    /\ out' = Out(op, "ConnectionError", <<>>, 0, 0, <<>>, <<"not_connected">>)
    /\ UNCHANGED <<apiVars, cacheVars, cbVars, connVars>>

\* the same for an operation called with argument a
FailFastArg(op, a) ==
    /\ out' = OutArg(Out(op, "ConnectionError", <<>>, 0, 0, <<>>,
                         <<"not_connected">>), a)
    /\ UNCHANGED <<apiVars, cacheVars, cbVars, connVars>>

\* the range check with an exclusive upper bound
ValidTemperatureExclusive(t) == MIN_TEMP * 10 <= t /\ t < MAX_TEMP * 10

\* 40 <= temperature <= 230, the temperature in tenths of a degree
ValidTemperature(t) == MIN_TEMP * 10 <= t /\ t <= MAX_TEMP * 10

\* 0 <= brightness <= 100
ValidBrightness(b) == MIN_BRIGHTNESS <= b /\ b <= MAX_BRIGHTNESS

\* the two bytes in big-endian order
PackBE16(v) == <<(v \div 256) % 256, v % 256>>

\* struct.pack("<H", temp_value)
PackLE16(v) == <<v % 256, (v \div 256) % 256>>

\* set_target_temperature; wr is how write_gatt_char ends
SetTargetTemperature(t, wr) ==
    /\ pc = "idle"
    /\ IF NotConnected
       THEN /\ wr = "ok"
            /\ FailFastArg("set_target_temperature", t)
       ELSE IF ~ValidTemperature(t)
       THEN /\ wr = "ok"
            /\ out' = OutArg(Out("set_target_temperature", "ValueError", <<>>,
                                 0, 0, <<>>, <<>>), t)
            /\ UNCHANGED <<apiVars, cacheVars, cbVars, connVars>>
       ELSE /\ out' = OutArg(Out("set_target_temperature",
                                 IF wr = "ok" THEN "ok" ELSE "ConnectionError",
                                 <<"write">>, 0, 0, PackLE16(t), <<>>), t)
            /\ target_temperature' = IF wr = "ok" THEN t ELSE target_temperature
            /\ UNCHANGED <<apiVars, current_temperature, heat_on, fan_on, cbVars,
                           connVars>>

\* what set_heat_on / set_heat_off / set_fan_on / set_fan_off report after the
\* write
SwitchOut(op, wr) ==
    Out(op, IF wr = "ok" THEN "ok" ELSE "ConnectionError", <<"write">>, 0, 0,
        <<>>, <<>>)

\* set_heat_on: optimistic update, reverted to False when the write fails
SetHeatOn(wr) ==
    /\ pc = "idle"
    /\ IF NotConnected
       THEN /\ wr = "ok"
            /\ FailFast("set_heat_on")
       ELSE /\ heat_on' = (wr = "ok")
            /\ out' = SwitchOut("set_heat_on", wr)
            /\ UNCHANGED <<apiVars, current_temperature, target_temperature,
                           fan_on, cbVars, connVars>>

\* set_heat_off: optimistic update, reverted to True when the write fails
SetHeatOff(wr) ==
    /\ pc = "idle"
    /\ IF NotConnected
       THEN /\ wr = "ok"
            /\ FailFast("set_heat_off")
       ELSE /\ heat_on' = (wr # "ok")
            /\ out' = SwitchOut("set_heat_off", wr)
            /\ UNCHANGED <<apiVars, current_temperature, target_temperature,
                           fan_on, cbVars, connVars>>

\* set_fan_on: optimistic update, reverted to False when the write fails
SetFanOn(wr) ==
    /\ pc = "idle"
    /\ IF NotConnected
       THEN /\ wr = "ok"
            /\ FailFast("set_fan_on")
       ELSE /\ fan_on' = (wr = "ok")
            /\ out' = SwitchOut("set_fan_on", wr)
            /\ UNCHANGED <<apiVars, current_temperature, target_temperature,
                           heat_on, cbVars, connVars>>

\* set_fan_off: optimistic update, reverted to True when the write fails
SetFanOff(wr) ==
    /\ pc = "idle"
    /\ IF NotConnected
       THEN /\ wr = "ok"
            /\ FailFast("set_fan_off")
       ELSE /\ fan_on' = (wr # "ok")
            /\ out' = SwitchOut("set_fan_off", wr)
            /\ UNCHANGED <<apiVars, current_temperature, target_temperature,
                           heat_on, cbVars, connVars>>

\* set_screen_brightness: bytes([brightness]) is written
SetScreenBrightness(b, wr) ==
    /\ pc = "idle"
    /\ IF NotConnected
       THEN /\ wr = "ok"
            /\ FailFastArg("set_screen_brightness", b)
       ELSE IF ~ValidBrightness(b)
       THEN /\ wr = "ok"
            /\ out' = OutArg(Out("set_screen_brightness", "ValueError", <<>>,
                                 0, 0, <<>>, <<>>), b)
            /\ UNCHANGED <<apiVars, cacheVars, cbVars, connVars>>
       ELSE /\ out' = OutArg(Out("set_screen_brightness",
                                 IF wr = "ok" THEN "ok" ELSE "ConnectionError",
                                 <<"write">>, 0, 0, <<b>>, <<>>), b)
            /\ UNCHANGED <<apiVars, cacheVars, cbVars, connVars>>

------------------------------------------------------------------------------
(* reads *)

\* get_ble_firmware_version, get_volcano_firmware_version, get_serial_number,
\* get_hours_of_operation, get_minutes_of_operation; rd is how the read and
\* its decoding end
GetInfo(op, rd) ==
    /\ pc = "idle"
    /\ IF NotConnected
       THEN /\ rd = "ok"
            /\ FailFast(op)
       ELSE /\ out' = Out(op, IF rd = "ok" THEN "ok" ELSE "ConnectionError",
                          <<"read">>, 0, 0, <<>>, <<>>)
            /\ UNCHANGED <<apiVars, cacheVars, cbVars, connVars>>

\* get_device_state: len(status_data) >= 1
StateHasData(status_data) == Len(status_data) >= 1

\* get_device_state; rd is what read_gatt_char does: it raises, or it returns
\* a payload
GetDeviceState(rd) ==
    /\ pc = "idle"
    /\ IF NotConnected
       THEN /\ ~rd.ok
            /\ FailFast("get_device_state")
       ELSE /\ IF rd.ok /\ StateHasData(rd.data)
               THEN /\ heat_on' = StateHeat(rd.data[1])
                    /\ fan_on' = StateFan(rd.data[1])
               ELSE UNCHANGED <<heat_on, fan_on>>
            /\ out' = Out("get_device_state",
                          IF rd.ok THEN "ok" ELSE "read_failed", <<"read">>, 0,
                          0, rd.data,
                          <<current_temperature, target_temperature, heat_on',
                            fan_on', flag>>)
            /\ UNCHANGED <<apiVars, current_temperature, target_temperature,
                           cbVars, connVars>>

\* len(data) >= 2 (and, in the polled read, a payload that is not empty)
StatusHasData(data) == Len(data) >= 2

\* the 16-bit decode shared by the notification and the polled read: the new
\* heat and fan values replace the cached ones where they differ
StatusDecode(data) ==
    /\ heat_on' = DecodeHeat(LE16(data))
    /\ fan_on' = DecodeFan(LE16(data))

\* the change test looking at the heat bit only
StatusChangedHeatOnly(data) == DecodeHeat(LE16(data)) # heat_on

\* heat_changed or fan_changed
StatusChanged(data) ==
    \/ DecodeHeat(LE16(data)) # heat_on
    \/ DecodeFan(LE16(data)) # fan_on

\* _update_status_from_register; rd is what read_gatt_char does
UpdateStatusFromRegister(rd) ==
    /\ pc = "idle"
    /\ IF NotConnected
       THEN /\ ~rd.ok
            /\ out' = Out("_update_status_from_register", "skipped", <<>>, 0, 0,
                          <<>>, <<>>)
            /\ UNCHANGED <<heat_on, fan_on>>
       ELSE /\ IF rd.ok /\ StatusHasData(rd.data)
               THEN StatusDecode(rd.data)
               ELSE UNCHANGED <<heat_on, fan_on>>
            /\ out' = Out("_update_status_from_register",
                          IF rd.ok THEN "ok" ELSE "read_failed", <<"read">>, 0,
                          0, rd.data, <<>>)
    /\ UNCHANGED <<apiVars, current_temperature, target_temperature, cbVars,
                   connVars>>

------------------------------------------------------------------------------
(* notifications *)

\* registering the state-change callback the status notification invokes
SetStatusUpdateCallback ==
    /\ pc = "idle"
    /\ status_callback' = TRUE
    /\ out' = Out("set_status_update_callback", "none", <<>>, 0, 0, <<>>, <<>>)
    /\ UNCHANGED <<apiVars, cacheVars, disconnect_callback, connVars>>

\* _handle_status_notification, run by the client while it is subscribed.
\* Without a registered callback the handler leaves before decoding (an
\* attribute that was never assigned raises there instead: the cache is
\* untouched either way).
HandleStatusNotification(data) ==
    /\ client # "none" /\ client_conn /\ sub_status
    /\ IF ~status_callback
       THEN /\ out' = Out("_handle_status_notification", "ignored", <<>>, 0, 0,
                          data, <<>>)
            /\ UNCHANGED <<heat_on, fan_on>>
       ELSE IF StatusHasData(data)
       THEN /\ StatusDecode(data)
            /\ out' = Out("_handle_status_notification", "decoded", <<>>, 0,
                          IF StatusChanged(data) THEN 1 ELSE 0, data, <<>>)
       ELSE /\ out' = Out("_handle_status_notification", "short", <<>>, 0, 0,
                          data, <<>>)
            /\ UNCHANGED <<heat_on, fan_on>>
    /\ UNCHANGED <<apiVars, current_temperature, target_temperature, cbVars,
                   connVars>>

\* _handle_temperature_notification, run by the client while it is subscribed
HandleTemperatureNotification(data) ==
    /\ client # "none" /\ client_conn /\ sub_temp
    /\ current_temperature' =
           IF Len(data) >= 2 THEN LE16(data) ELSE current_temperature
    /\ out' = Out("_handle_temperature_notification", "none", <<>>, 0, 0, data,
                  <<>>)
    /\ UNCHANGED <<apiVars, target_temperature, heat_on, fan_on, cbVars,
                   connVars>>

------------------------------------------------------------------------------
(* VolcanoCoordinator: session detection *)

\* the session tracking one poll cycle works on: _session_start_time,
\* _last_session_end_time, _session_durations, _sessions_today,
\* _total_sessions, and the events fired on the bus so far in the cycle
Tracking(start, endt, durs, today, total, events) ==
    [start |-> start, endt |-> endt, durs |-> durs, today |-> today,
     total |-> total, events |-> events]

\* the start condition with a target of 100 degrees accepted
SessionStartsTargetInclusive(t, last, cur, tgt) ==
    /\ last # Null
    /\ last < Deg(START_COLD_DEGREES)
    /\ cur > Deg(START_WARM_DEGREES)
    /\ tgt >= Deg(START_TARGET_DEGREES)
    /\ t.start = Null

\* _detect_session_start: the condition
SessionStarts(t, last, cur, tgt) ==
    /\ last # Null
    /\ last < Deg(START_COLD_DEGREES)
    /\ cur > Deg(START_WARM_DEGREES)
    /\ tgt > Deg(START_TARGET_DEGREES)
    /\ t.start = Null

\* a session started whether or not one is open
DetectSessionStartIgnoringOpen(t, last, cur, tgt, time) ==
    IF SessionStarts([t EXCEPT !.start = Null], last, cur, tgt)
    THEN [t EXCEPT !.start = time, !.today = @ + 1, !.total = @ + 1,
                   !.events = Append(@, "session_started")]
    ELSE t

\* _detect_session_start; last is self._last_temp, time is datetime.now()
DetectSessionStart(t, last, cur, tgt, time) ==
    IF SessionStarts(t, last, cur, tgt)
    THEN [t EXCEPT !.start = time, !.today = @ + 1, !.total = @ + 1,
                   !.events = Append(@, "session_started")]
    ELSE t

\* the condition comparing the last temperature with the target itself
TemperatureReachedNoMargin(last, cur, tgt) ==
    /\ tgt # 0
    /\ cur >= tgt - Deg(REACHED_MARGIN_DEGREES)
    /\ last # Null
    /\ last < tgt

\* _detect_temperature_reached: the condition (a target of 0 is falsy)
TemperatureReached(last, cur, tgt) ==
    /\ tgt # 0
    /\ cur >= tgt - Deg(REACHED_MARGIN_DEGREES)
    /\ last # Null
    /\ last < tgt - Deg(REACHED_MARGIN_DEGREES)

\* _detect_temperature_reached
DetectTemperatureReached(t, last, cur, tgt) ==
    IF TemperatureReached(last, cur, tgt)
    THEN [t EXCEPT !.events = Append(@, "temperature_reached")]
    ELSE t

\* session_ending with the fan clause reduced to "the fan is off"
SessionEndingFanOff(last, lastfan, cur, fan) ==
    \/ cur < Deg(END_COLD_DEGREES) /\ last # Null /\ last # 0
           /\ last > Deg(END_HOT_DEGREES)
    \/ ~fan /\ cur > Deg(END_FAN_DEGREES)

\* _detect_session_end: session_ending (a last temperature of None or 0 is
\* falsy); lastfan is self._last_fan_state
SessionEnding(last, lastfan, cur, fan) ==
    \/ cur < Deg(END_COLD_DEGREES) /\ last # Null /\ last # 0
           /\ last > Deg(END_HOT_DEGREES)
    \/ ~fan /\ lastfan /\ cur > Deg(END_FAN_DEGREES)

\* the list with the newest entry dropped once it is over the cap
AppendDurationDropNewest(durs, d) ==
    IF Len(durs) + 1 > MAX_SESSION_DURATIONS THEN durs ELSE Append(durs, d)

\* lines 169-172: append, then pop(0) once the list is over the cap
AppendDuration(durs, d) ==
    IF Len(durs) + 1 > MAX_SESSION_DURATIONS
    THEN Tail(Append(durs, d))
    ELSE Append(durs, d)

\* a session closed without its session_ended event
DetectSessionEndSilent(t, last, lastfan, cur, fan, time) ==
    IF SessionEnding(last, lastfan, cur, fan) /\ t.start # Null
    THEN [t EXCEPT !.durs = AppendDuration(@, time - t.start),
                   !.endt = time,
                   !.start = Null]
    ELSE t

\* _detect_session_end
DetectSessionEnd(t, last, lastfan, cur, fan, time) ==
    IF SessionEnding(last, lastfan, cur, fan) /\ t.start # Null
    THEN [t EXCEPT !.durs = AppendDuration(@, time - t.start),
                   !.endt = time,
                   !.events = Append(@, "session_ended"),
                   !.start = Null]
    ELSE t

\* the fan events fired on every poll while the fan is on
FanEventsOnLevel(t, lastfan, fan) ==
    IF fan
    THEN [t EXCEPT !.events = Append(@, "fan_started")]
    ELSE IF lastfan THEN [t EXCEPT !.events = Append(@, "fan_stopped")]
    ELSE t

\* _handle_fan_events
HandleFanEvents(t, lastfan, fan) ==
    IF fan # lastfan
    THEN [t EXCEPT !.events =
              Append(@, IF fan THEN "fan_started" ELSE "fan_stopped")]
    ELSE t

\* lines 340-343: the three detections, when both temperatures were read
DetectSession(t, last, lastfan, cur, tgt, fan, time) ==
    IF cur # Null /\ tgt # Null
    THEN DetectSessionEnd(
             DetectTemperatureReached(
                 DetectSessionStart(t, last, cur, tgt, time), last, cur, tgt),
             last, lastfan, cur, fan, time)
    ELSE t

\* sum(self._session_durations)
RECURSIVE SumOf(_)
SumOf(durs) == IF durs = <<>> THEN 0 ELSE Head(durs) + SumOf(Tail(durs))

\* the average taken over the cap instead of the entries held
AverageOverCap(durs) ==
    IF durs = <<>> THEN <<>> ELSE <<SumOf(durs), MAX_SESSION_DURATIONS>>

\* the average_session_duration property: None (here <<>>) for an empty
\* list, else sum / len, kept exact as <<sum, len>> (the float and its
\* rounding to one decimal are not modelled)
AverageSessionDuration(durs) ==
    IF durs = <<>> THEN <<>> ELSE <<SumOf(durs), Len(durs)>>

\* the last_session_duration property
LastSessionDuration(durs) == IF durs = <<>> THEN Null ELSE durs[Len(durs)]

\* lines 354-367: the session statistics of the snapshot
SessionStats(durs) ==
    <<AverageSessionDuration(durs), LastSessionDuration(durs)>>

\* _reset_daily_stats, run by the sessions_today property; newday: the date
\* is no longer self._last_reset_date
ResetDailyStats(today, newday) == IF newday THEN 0 ELSE today

------------------------------------------------------------------------------
(* VolcanoCoordinator: the dynamic poll interval *)

\* self.data.get(key, default) if self.data else default: the default where
\* there is no snapshot yet, else the value held, None included
DataHeat(d) == IF d.kind = "none" THEN FALSE ELSE d.heat_on
DataFan(d) == IF d.kind = "none" THEN FALSE ELSE d.fan_on
DataCurrent(d) == IF d.kind = "none" THEN 0 ELSE d.current_temperature
DataTarget(d) == IF d.kind = "none" THEN 0 ELSE d.target_temperature

\* the table with the second row one second slower
IntervalTableSlowNear(heat, fan, cur, tgt) ==
    IF fan THEN fast_update_interval
    ELSE IF heat /\ tgt > 0 /\ cur > tgt - Deg(NEAR_TARGET_DEGREES)
    THEN active_update_interval
    ELSE IF heat \/ (tgt > 0 /\ cur < tgt) THEN active_update_interval
    ELSE IF cur > Deg(COOLING_DEGREES) THEN COOLING_INTERVAL
    ELSE base_update_interval

\* lines 283-300 on temperatures that are numbers
IntervalTable(heat, fan, cur, tgt) ==
    IF fan THEN fast_update_interval
    ELSE IF heat /\ tgt > 0 /\ cur > tgt - Deg(NEAR_TARGET_DEGREES)
    THEN fast_update_interval
    ELSE IF heat \/ (tgt > 0 /\ cur < tgt) THEN active_update_interval
    ELSE IF cur > Deg(COOLING_DEGREES) THEN COOLING_INTERVAL
    ELSE base_update_interval

\* lines 283-300 compare a temperature that is None with a number, which
\* raises TypeError: the comparisons Python reaches, in order
IntervalRaises(heat, fan, cur, tgt) ==
    /\ ~fan
    /\ IF heat
       THEN tgt = Null \/ (tgt > 0 /\ cur = Null)
       ELSE \/ tgt = Null
            \/ tgt > 0 /\ cur = Null
            \/ tgt <= 0 /\ cur = Null

\* _get_dynamic_update_interval on the snapshot d: the seconds, or 0 where it
\* raises
GetDynamicUpdateInterval(d) ==
    IF IntervalRaises(DataHeat(d), DataFan(d), DataCurrent(d), DataTarget(d))
    THEN 0
    ELSE IntervalTable(DataHeat(d), DataFan(d), DataCurrent(d), DataTarget(d))

------------------------------------------------------------------------------
(* VolcanoAPI: the temperature getters *)

\* what a temperature getter reports: r is the value returned, Null for None
GetterOut(op, io, r) ==
    Out(op, IF r # Null THEN "ok" ELSE "null", io, 0, 0, <<>>, <<r>>)

\* a getter that gives up on a disconnected device without a reconnect
GetterFailsFast(n) ==
    /\ out' = Out("connect", "ConnectionError", <<>>, 0, 0, <<>>,
                  <<"not_connected", n, 0, 0, "none">>)
    /\ UNCHANGED <<apiVars, cacheVars, cbVars, connVars>>

\* the getter finds the device not connected: its one reconnect
GetterReconnect(n) == ConnectCall(n)

------------------------------------------------------------------------------
(* VolcanoCoordinator._async_update_data, one poll cycle *)

\* a step of the cycle runs when no connect call of the cycle is pending
PollAt(p) == poll_pc = p /\ pc = "idle"

\* a connect call of the cycle has returned and the cycle has not taken its
\* result yet: no await lies between the two, so no callback runs here
Resuming ==
    /\ pc = "idle"
    /\ poll_pc \in {"reconnect", "current_reconnect", "target_reconnect"}

\* the connection error handled as an unexpected error: UpdateFailed is
\* raised and self.data stays as it is
RaiseUpdateFailed(calls) ==
    /\ poll_pc' = "idle"
    /\ cycle' = [cycle EXCEPT !.calls = @ \o calls, !.res = "UpdateFailed"]
    /\ current_temp' = Null
    /\ target_temp' = Null
    /\ UNCHANGED <<trackVars, infoVars, heldVars, now, bus_last>>

\* a disconnected cycle that also drops the open session
ReturnDisconnectedClosesSession(calls) ==
    /\ poll_pc' = "idle"
    /\ coord_data' = DisconnectedSnapshot
    /\ cycle' = [cycle EXCEPT !.calls = @ \o calls, !.res = "disconnected"]
    /\ current_temp' = Null
    /\ target_temp' = Null
    /\ session_start_time' = Null
    /\ UNCHANGED <<last_temp, last_target_temp, last_fan_state,
                   last_session_end_time, session_durations, sessions_today,
                   total_sessions, infoVars, update_interval, now, bus_last>>

\* lines 315-321 and 398-404: the cycle returns the disconnected snapshot,
\* which the coordinator then holds as self.data
ReturnDisconnected(calls) ==
    /\ poll_pc' = "idle"
    /\ coord_data' = DisconnectedSnapshot
    /\ cycle' = [cycle EXCEPT !.calls = @ \o calls, !.res = "disconnected"]
    /\ current_temp' = Null
    /\ target_temp' = Null
    /\ UNCHANGED <<trackVars, infoVars, update_interval, now, bus_last>>

\* lines 304-311: the cycle begins; a device that is not connected is
\* reconnected first.  limit bounds the number of cycles.
PollBegin(limit) ==
    /\ PollAt("idle")
    /\ now < limit
    /\ now' = now + 1
    /\ IF ~is_connected
       THEN /\ ConnectCall(POLL_MAX_RETRIES)
            /\ poll_pc' = "reconnect"
            /\ cycle' = Cycle("disconnected", <<"connect">>, <<>>, "running",
                              "none")
       ELSE /\ poll_pc' = "current"
            /\ cycle' = Cycle("connected", <<>>, <<>>, "running", "none")
            /\ UNCHANGED <<apiVars, cacheVars, cbVars, connVars, out>>
    /\ UNCHANGED <<localVars, trackVars, infoVars, heldVars, bus_last>>

\* lines 311-321: connect has returned or raised
PollReconnected ==
    /\ PollAt("reconnect")
    /\ IF out.res = "ConnectionError"
       THEN ReturnDisconnected(<<>>)
       ELSE /\ poll_pc' = "current"
            /\ UNCHANGED <<localVars, trackVars, infoVars, heldVars, now,
                           bus_last, cycle>>
    /\ UNCHANGED <<apiVars, cacheVars, cbVars, connVars, out>>

\* line 324, get_current_temperature: on a connected device the value is read
\* (r; Null where the read fails), on a disconnected device the getter's
\* reconnect starts
PollCurrent(r) ==
    /\ PollAt("current")
    /\ IF is_connected
       THEN /\ current_temperature' =
                   IF r # Null THEN r ELSE current_temperature
            /\ current_temp' = r
            /\ poll_pc' = "target"
            /\ out' = GetterOut("get_current_temperature", <<"read">>, r)
            /\ cycle' = [cycle EXCEPT
                   !.calls = @ \o <<"get_current_temperature", "read">>,
                   !.cur_conn = "yes"]
            /\ UNCHANGED <<apiVars, target_temperature, heat_on, fan_on, cbVars,
                           connVars, target_temp>>
       ELSE /\ r = Null
            /\ GetterReconnect(GETTER_MAX_RETRIES)
            /\ poll_pc' = "current_reconnect"
            /\ cycle' = [cycle EXCEPT
                   !.calls = @ \o IF out'.op = "connect_call"
                                  THEN <<"get_current_temperature", "connect">>
                                  ELSE <<"get_current_temperature">>,
                   !.cur_conn = "no"]
            /\ UNCHANGED localVars
    /\ UNCHANGED <<trackVars, infoVars, heldVars, now, bus_last>>

\* get_current_temperature after its reconnect: the value is read when the
\* reconnect succeeded, else None is returned
PollCurrentResume(r) ==
    /\ PollAt("current_reconnect")
    /\ IF out.res = "True"
       THEN /\ current_temperature' =
                   IF r # Null THEN r ELSE current_temperature
            /\ out' = GetterOut("get_current_temperature", <<"read">>, r)
            /\ cycle' = [cycle EXCEPT !.calls = @ \o <<"read">>]
       ELSE /\ r = Null
            /\ out' = GetterOut("get_current_temperature", <<>>, r)
            /\ UNCHANGED <<current_temperature, cycle>>
    /\ current_temp' = r
    /\ poll_pc' = "target"
    /\ UNCHANGED <<apiVars, target_temperature, heat_on, fan_on, cbVars,
                   connVars, target_temp, trackVars, infoVars, heldVars, now,
                   bus_last>>

\* line 328, get_target_temperature
PollTarget(r) ==
    /\ PollAt("target")
    /\ IF is_connected
       THEN /\ target_temperature' =
                   IF r # Null THEN r ELSE target_temperature
            /\ target_temp' = r
            /\ poll_pc' = "state"
            /\ out' = GetterOut("get_target_temperature", <<"read">>, r)
            /\ cycle' = [cycle EXCEPT
                   !.calls = @ \o <<"get_target_temperature", "read">>]
            /\ UNCHANGED <<apiVars, current_temperature, heat_on, fan_on,
                           cbVars, connVars, current_temp>>
       ELSE /\ r = Null
            /\ GetterReconnect(GETTER_MAX_RETRIES)
            /\ poll_pc' = "target_reconnect"
            /\ cycle' = [cycle EXCEPT
                   !.calls = @ \o IF out'.op = "connect_call"
                                  THEN <<"get_target_temperature", "connect">>
                                  ELSE <<"get_target_temperature">>]
            /\ UNCHANGED localVars
    /\ UNCHANGED <<trackVars, infoVars, heldVars, now, bus_last>>

\* get_target_temperature after its reconnect
PollTargetResume(r) ==
    /\ PollAt("target_reconnect")
    /\ IF out.res = "True"
       THEN /\ target_temperature' =
                   IF r # Null THEN r ELSE target_temperature
            /\ out' = GetterOut("get_target_temperature", <<"read">>, r)
            /\ cycle' = [cycle EXCEPT !.calls = @ \o <<"read">>]
       ELSE /\ r = Null
            /\ out' = GetterOut("get_target_temperature", <<>>, r)
            /\ UNCHANGED <<target_temperature, cycle>>
    /\ target_temp' = r
    /\ poll_pc' = "state"
    /\ UNCHANGED <<apiVars, current_temperature, heat_on, fan_on, cbVars,
                   connVars, current_temp, trackVars, infoVars, heldVars, now,
                   bus_last>>

\* the latest event of the given kinds among events, prev if there is none
RECURSIVE LatestOf(_, _, _)
LatestOf(prev, events, kinds) ==
    IF events = <<>> THEN prev
    ELSE LatestOf(IF Head(events) \in kinds THEN Head(events) ELSE prev,
                  Tail(events), kinds)

\* how many times the event e is in events
RECURSIVE Count(_, _)
Count(events, e) ==
    IF events = <<>> THEN 0
    ELSE (IF Head(events) = e THEN 1 ELSE 0) + Count(Tail(events), e)

SessionEventKinds == {"session_started", "session_ended"}
FanEventKinds == {"fan_started", "fan_stopped"}

\* hass.bus.async_fire for the events of one cycle, in order
BusFire(events) ==
    bus_last' = [session |-> LatestOf(bus_last.session, events,
                                      SessionEventKinds),
                 fan |-> LatestOf(bus_last.fan, events, FanEventKinds),
                 started |-> bus_last.started + Count(events, "session_started"),
                 ended |-> bus_last.ended + Count(events, "session_ended")]

\* line 375: the cycles that read the device information
FetchesEveryCycle(counter) == TRUE

Fetches(counter) == counter % DEVICE_INFO_CYCLES = 0

\* lines 337-394 and 405-407, after get_device_state has returned: session
\* tracking, statistics, the device information, the new interval, the
\* snapshot.  info is what get_device_info_data returns where it is called,
\* newday is whether the date has changed since the daily statistics were
\* reset.
PollFinish(info, newday) ==
    LET fan == fan_on'
        t0 == Tracking(session_start_time, last_session_end_time,
                       session_durations, sessions_today, total_sessions, <<>>)
        t1 == DetectSession(t0, last_temp, last_fan_state, current_temp,
                            target_temp, fan, now)
        t2 == HandleFanEvents(t1, last_fan_state, fan)
        fetch == Fetches(device_info_counter)
        device_info == IF fetch THEN info
                       ELSE IF cached_device_info # Null
                            THEN cached_device_info ELSE NoInfo
        snap == Snapshot("snapshot", flag, current_temperature,
                         target_temperature, heat_on', fan_on')
        new_interval == GetDynamicUpdateInterval(coord_data)
    IN  /\ fetch \/ info = 1
        /\ last_temp' = current_temp
        /\ last_target_temp' = target_temp
        /\ last_fan_state' = fan
        /\ session_start_time' = t2.start
        /\ last_session_end_time' = t2.endt
        /\ session_durations' = t2.durs
        /\ sessions_today' = ResetDailyStats(t2.today, newday)
        /\ total_sessions' = t2.total
        /\ BusFire(t2.events)
        /\ cached_device_info' = IF fetch /\ info # NoInfo
                                  THEN info ELSE cached_device_info
        /\ device_info_counter' = device_info_counter + 1
        /\ IF new_interval = 0
           THEN /\ cycle' = [cycle EXCEPT
                       !.calls = @ \o <<"get_device_state", "read">>,
                       !.events = t2.events, !.res = "UpdateFailed",
                       !.stats = SessionStats(t2.durs),
                       !.fetch = fetch, !.info = device_info]
                /\ UNCHANGED heldVars
           ELSE /\ cycle' = [cycle EXCEPT
                       !.calls = @ \o <<"get_device_state", "read">>,
                       !.events = t2.events, !.res = "snapshot",
                       !.stats = SessionStats(t2.durs),
                       !.fetch = fetch, !.info = device_info]
                /\ coord_data' = snap
                /\ update_interval' = new_interval
        /\ poll_pc' = "idle"
        /\ current_temp' = Null
        /\ target_temp' = Null
        /\ UNCHANGED now

\* line 333 to the end of the cycle: get_device_state raises when the device
\* is not connected, which ends the cycle with the disconnected snapshot
PollState(rd, info, newday) ==
    /\ PollAt("state")
    /\ GetDeviceState(rd)
    /\ IF NotConnected
       THEN /\ info = 1
            /\ ~newday
            /\ ReturnDisconnected(<<"get_device_state">>)
       ELSE PollFinish(info, newday)

\* a callback of the BLE library during a poll cycle
PollCallback(A) ==
    /\ ~Resuming
    /\ A
    /\ UNCHANGED <<coordVars, entVars>>

------------------------------------------------------------------------------
(* The API on its own: any caller, every operation; the coordinator rests *)
Next ==
    \/ /\ \E n \in 1..MaxRetries : ConnectCall(n)
       /\ UNCHANGED <<coordVars, entVars>>
    \/ /\ \E o \in {"not_found", "bleak_error", "exception", "not_connected",
              "connected"} : ConnectTry(o)
       /\ UNCHANGED <<coordVars, entVars>>
    \/ /\ \E o \in {"ok", "temp_fails", "status_fails"} : ConnectNotify(o)
       /\ UNCHANGED <<coordVars, entVars>>
    \/ /\ ConnectFinish
       /\ UNCHANGED <<coordVars, entVars>>
    \/ /\ ConnectCleanup
       /\ UNCHANGED <<coordVars, entVars>>
    \/ /\ ConnectSleep
       /\ UNCHANGED <<coordVars, entVars>>
    \/ /\ HandleDisconnect
       /\ UNCHANGED <<coordVars, entVars>>
    \/ /\ SetDisconnectCallback
       /\ UNCHANGED <<coordVars, entVars>>
    \/ /\ \E o \in {"skip", "ok", "stop_fails", "close_fails",
              "stop_and_close_fail"} : Disconnect(o)
       /\ UNCHANGED <<coordVars, entVars>>
    \/ /\ \E t \in TempInputs, wr \in {"ok", "fail"} : SetTargetTemperature(t, wr)
       /\ UNCHANGED <<coordVars, entVars>>
    \/ /\ \E wr \in {"ok", "fail"} : SetHeatOn(wr)
       /\ UNCHANGED <<coordVars, entVars>>
    \/ /\ \E wr \in {"ok", "fail"} : SetHeatOff(wr)
       /\ UNCHANGED <<coordVars, entVars>>
    \/ /\ \E wr \in {"ok", "fail"} : SetFanOn(wr)
       /\ UNCHANGED <<coordVars, entVars>>
    \/ /\ \E wr \in {"ok", "fail"} : SetFanOff(wr)
       /\ UNCHANGED <<coordVars, entVars>>
    \/ /\ \E b \in BrightnessInputs, wr \in {"ok", "fail"} :
              SetScreenBrightness(b, wr)
       /\ UNCHANGED <<coordVars, entVars>>
    \/ /\ \E op \in InfoReads, rd \in {"ok", "fail"} : GetInfo(op, rd)
       /\ UNCHANGED <<coordVars, entVars>>
    \/ /\ \E rd \in StatusReads : GetDeviceState(rd)
       /\ UNCHANGED <<coordVars, entVars>>
    \/ /\ \E rd \in StatusReads : UpdateStatusFromRegister(rd)
       /\ UNCHANGED <<coordVars, entVars>>
    \/ /\ SetStatusUpdateCallback
       /\ UNCHANGED <<coordVars, entVars>>
    \/ /\ \E payload \in StatusPayloads : HandleStatusNotification(payload)
       /\ UNCHANGED <<coordVars, entVars>>
    \/ /\ \E payload \in TempPayloads : HandleTemperatureNotification(payload)
       /\ UNCHANGED <<coordVars, entVars>>


Spec == Init /\ [][Next]_vars

\* the steps of the connect coroutine after the call
ConnectRun ==
    /\ \/ \E o \in {"not_found", "bleak_error", "exception", "not_connected",
                    "connected"} : ConnectTry(o)
       \/ \E o \in {"ok", "temp_fails", "status_fails"} : ConnectNotify(o)
       \/ ConnectFinish
       \/ ConnectCleanup
       \/ ConnectSleep
    /\ UNCHANGED <<coordVars, entVars>>

\* the event loop runs a started connect coroutine on: each of its awaits
\* (client.connect, start_notify, client.disconnect, sleep) completes
FairSpec == Spec /\ WF_vars(ConnectRun)

------------------------------------------------------------------------------
(* The coordinator polling a device whose link comes and goes *)

\* the poll cycles of a run
MaxPolls == 3

\* what a temperature read returns: None or 70 degrees
LinkTemps == {Null, 700}
\* what the status read does
LinkStatus ==
    {[ok |-> FALSE, data |-> <<>>], [ok |-> TRUE, data |-> <<0, 0>>],
     [ok |-> TRUE, data |-> <<2, 0>>]}

PollNext ==
    \/ /\ PollBegin(MaxPolls)
       /\ UNCHANGED entVars
    \/ /\ PollReconnected
       /\ UNCHANGED entVars
    \/ /\ \E r \in LinkTemps : PollCurrent(r)
       /\ UNCHANGED entVars
    \/ /\ \E r \in LinkTemps : PollCurrentResume(r)
       /\ UNCHANGED entVars
    \/ /\ \E r \in LinkTemps : PollTarget(r)
       /\ UNCHANGED entVars
    \/ /\ \E r \in LinkTemps : PollTargetResume(r)
       /\ UNCHANGED entVars
    \/ /\ \E rd \in LinkStatus, info \in {NoInfo, 1} :
              PollState(rd, info, FALSE)
       /\ UNCHANGED entVars
    \/ /\ \E o \in {"not_found", "bleak_error", "exception", "not_connected",
                    "connected"} : ConnectTry(o)
       /\ UNCHANGED <<coordVars, entVars>>
    \/ /\ \E o \in {"ok", "temp_fails", "status_fails"} : ConnectNotify(o)
       /\ UNCHANGED <<coordVars, entVars>>
    \/ /\ ConnectFinish
       /\ UNCHANGED <<coordVars, entVars>>
    \/ /\ ConnectCleanup
       /\ UNCHANGED <<coordVars, entVars>>
    \/ /\ ConnectSleep
       /\ UNCHANGED <<coordVars, entVars>>
    \/ PollCallback(HandleDisconnect)

PollSpec == Init /\ [][PollNext]_vars

------------------------------------------------------------------------------
(* The coordinator following a device through heat-up, use and cool-down *)

\* the poll cycles of a run
MaxSessionPolls == 4

\* what the read of the current temperature returns: None, 30, 45, 70 or
\* 145 degrees
SessionCurrents == {Null, 300, 450, 700, 1450}
\* what the read of the target temperature returns: None, 100 or 150 degrees
SessionTargets == {Null, 1000, 1500}
\* what the status read does: it fails, or byte 0 says fan off or fan on
SessionStatus ==
    {[ok |-> FALSE, data |-> <<>>], [ok |-> TRUE, data |-> <<0, 0>>],
     [ok |-> TRUE, data |-> <<2, 0>>]}

\* the link holds during a cycle and may drop between two cycles; a connect
\* attempt succeeds or fails with a BLE error
SessionNext ==
    \/ /\ PollBegin(MaxSessionPolls)
       /\ UNCHANGED entVars
    \/ /\ PollReconnected
       /\ UNCHANGED entVars
    \/ /\ \E r \in SessionCurrents : PollCurrent(r)
       /\ UNCHANGED entVars
    \/ /\ \E r \in SessionTargets : PollTarget(r)
       /\ UNCHANGED entVars
    \/ /\ \E rd \in SessionStatus, newday \in BOOLEAN :
              PollState(rd, 1, newday)
       /\ UNCHANGED entVars
    \/ /\ \E o \in {"bleak_error", "connected"} : ConnectTry(o)
       /\ UNCHANGED <<coordVars, entVars>>
    \/ /\ ConnectNotify("ok")
       /\ UNCHANGED <<coordVars, entVars>>
    \/ /\ ConnectFinish
       /\ UNCHANGED <<coordVars, entVars>>
    \/ /\ ConnectCleanup
       /\ UNCHANGED <<coordVars, entVars>>
    \/ /\ ConnectSleep
       /\ UNCHANGED <<coordVars, entVars>>
    \/ /\ poll_pc = "idle"
       /\ PollCallback(HandleDisconnect)

SessionSpec == Init /\ [][SessionNext]_vars

------------------------------------------------------------------------------
(* The coordinator following a device through many short sessions *)

\* the poll cycles of a run: enough for 101 sessions of two polls each
MaxRingPolls == 206
\* the first sessions of a run last one or two polls, the later ones one
RingVaried == 2

\* the device is cold (45 degrees) or hot (145 degrees), target 150, fan off
RingCurrents == {Deg(45), Deg(145)}

\* the device heats up and cools down in turn; it may stay hot for one more
\* poll in the first sessions
RingPlays(r) ==
    \/ r # current_temperature
    \/ /\ r = Deg(145)
       /\ total_sessions <= RingVaried
       /\ session_start_time = now - 1

RingNext ==
    \/ /\ PollBegin(MaxRingPolls)
       /\ UNCHANGED entVars
    \/ /\ PollReconnected
       /\ UNCHANGED entVars
    \/ /\ \E r \in RingCurrents : RingPlays(r) /\ PollCurrent(r)
       /\ UNCHANGED entVars
    \/ /\ PollTarget(Deg(150))
       /\ UNCHANGED entVars
    \/ /\ PollState([ok |-> TRUE, data |-> <<0, 0>>], 1, FALSE)
       /\ UNCHANGED entVars
    \/ /\ ConnectTry("connected")
       /\ UNCHANGED <<coordVars, entVars>>
    \/ /\ ConnectNotify("ok")
       /\ UNCHANGED <<coordVars, entVars>>
    \/ /\ ConnectFinish
       /\ UNCHANGED <<coordVars, entVars>>

RingSpec == Init /\ [][RingNext]_vars

------------------------------------------------------------------------------
(* The interval chosen after each of the snapshots a device can produce *)

\* the poll cycles of a run: the second computes its interval from the
\* snapshot of the first
MaxTablePolls == 2

\* the temperatures the device reports: cold, just warm, far below the
\* target, ten degrees below it, five below, and fifteen above
TableCurrents ==
    {0, Deg(50), Deg(51), Deg(150), Deg(190), Deg(195), Deg(215)}
TableTargets == {0, Deg(200)}
\* heat and fan off, heat on, fan on, both on
TableStatus == {[ok |-> TRUE, data |-> <<b, 0>>] : b \in 0..3}

TableNext ==
    \/ /\ PollBegin(MaxTablePolls)
       /\ UNCHANGED entVars
    \/ /\ PollReconnected
       /\ UNCHANGED entVars
    \/ /\ \E r \in TableCurrents : PollCurrent(r)
       /\ UNCHANGED entVars
    \/ /\ \E r \in TableTargets : PollTarget(r)
       /\ UNCHANGED entVars
    \/ /\ \E rd \in TableStatus : PollState(rd, 1, FALSE)
       /\ UNCHANGED entVars
    \/ /\ ConnectTry("connected")
       /\ UNCHANGED <<coordVars, entVars>>
    \/ /\ ConnectNotify("ok")
       /\ UNCHANGED <<coordVars, entVars>>
    \/ /\ ConnectFinish
       /\ UNCHANGED <<coordVars, entVars>>

TableSpec == Init /\ [][TableNext]_vars

------------------------------------------------------------------------------
(* A device that heats up, cools down gradually and heats up again *)

\* the poll cycles of a run
MaxCoolPolls == 7

\* what the read of the current temperature returns in poll n of a run: cold
\* (30 or 45 degrees), then hot (85 or 145), then between 50 and 80 (60 or
\* 70), then cold for two polls, then hot again
CoolCurrents(n) ==
    IF n \in {1, 4, 5} THEN {Deg(30), Deg(45)}
    ELSE IF n = 3 THEN {Deg(60), Deg(70)}
    ELSE {Deg(85), Deg(145)}

\* the link holds and the fan stays off
CoolNext ==
    \/ /\ PollBegin(MaxCoolPolls)
       /\ UNCHANGED entVars
    \/ /\ PollReconnected
       /\ UNCHANGED entVars
    \/ /\ \E r \in CoolCurrents(now) : PollCurrent(r)
       /\ UNCHANGED entVars
    \/ /\ \E r \in {Deg(150), Deg(180)} : PollTarget(r)
       /\ UNCHANGED entVars
    \/ /\ PollState([ok |-> TRUE, data |-> <<0, 0>>], 1, FALSE)
       /\ UNCHANGED entVars
    \/ /\ ConnectTry("connected")
       /\ UNCHANGED <<coordVars, entVars>>
    \/ /\ ConnectNotify("ok")
       /\ UNCHANGED <<coordVars, entVars>>
    \/ /\ ConnectFinish
       /\ UNCHANGED <<coordVars, entVars>>

CoolSpec == Init /\ [][CoolNext]_vars

\* the coordinator keeps polling
CoolFairSpec == CoolSpec /\ WF_vars(CoolNext)

-------------------------------------------------------------------------------
(* The link made, lost, closed and made again, by the poll cycle and by hand *)

\* the poll cycles of a run
MaxLinkPolls == 2

\* how an attempt of connect goes
LinkOutcomes ==
    {"not_found", "bleak_error", "bleak_error_connected", "not_connected",
     "connected"}

LinkNext ==
    \/ /\ PollBegin(MaxLinkPolls)
       /\ UNCHANGED entVars
    \/ /\ PollReconnected
       /\ UNCHANGED entVars
    \/ /\ \E r \in LinkTemps : PollCurrent(r)
       /\ UNCHANGED entVars
    \/ /\ \E r \in LinkTemps : PollCurrentResume(r)
       /\ UNCHANGED entVars
    \/ /\ \E r \in LinkTemps : PollTarget(r)
       /\ UNCHANGED entVars
    \/ /\ \E r \in LinkTemps : PollTargetResume(r)
       /\ UNCHANGED entVars
    \/ /\ PollState([ok |-> TRUE, data |-> <<0, 0>>], 1, FALSE)
       /\ UNCHANGED entVars
    \/ /\ poll_pc = "idle"
       /\ \E n \in 1..MaxRetries : ConnectCall(n)
       /\ UNCHANGED <<coordVars, entVars>>
    \/ /\ \E o \in LinkOutcomes : ConnectTry(o)
       /\ UNCHANGED <<coordVars, entVars>>
    \/ /\ ConnectNotify("ok")
       /\ UNCHANGED <<coordVars, entVars>>
    \/ /\ ConnectFinish
       /\ UNCHANGED <<coordVars, entVars>>
    \/ /\ ConnectCleanup
       /\ UNCHANGED <<coordVars, entVars>>
    \/ /\ ConnectSleep
       /\ UNCHANGED <<coordVars, entVars>>
    \/ /\ poll_pc = "idle"
       /\ \E o \in {"ok", "close_fails", "skip"} : Disconnect(o)
       /\ UNCHANGED <<coordVars, entVars>>
    \/ PollCallback(HandleDisconnect)

LinkSpec == Init /\ [][LinkNext]_vars

-------------------------------------------------------------------------------
(* The target temperature written and read back as a notification payload *)

\* the temperatures handed to set_target_temperature, in tenths of a degree:
\* every valid one, and the first invalid one on either side
CodecTemps == (MIN_TEMP * 10 - 1)..(MAX_TEMP * 10 + 1)

\* set_target_temperature packs the temperature and writes it, once in a
\* run; _handle_temperature_notification is then run on the bytes written
CodecNext ==
    \/ /\ ConnectCall(1)
       /\ UNCHANGED <<coordVars, entVars>>
    \/ /\ ConnectTry("connected")
       /\ UNCHANGED <<coordVars, entVars>>
    \/ /\ ConnectNotify("ok")
       /\ UNCHANGED <<coordVars, entVars>>
    \/ /\ ConnectFinish
       /\ UNCHANGED <<coordVars, entVars>>
    \/ /\ target_temperature = 0
       /\ \E t \in CodecTemps : SetTargetTemperature(t, "ok")
       /\ UNCHANGED <<coordVars, entVars>>
    \/ /\ out.op = "set_target_temperature"
       /\ out.res = "ok"
       /\ HandleTemperatureNotification(out.data)
       /\ UNCHANGED <<coordVars, entVars>>

CodecSpec == Init /\ [][CodecNext]_vars

-------------------------------------------------------------------------------
(* The device information over more than 120 poll cycles *)

\* the poll cycles of a run: the second read of the device information is
\* made by cycle 121
MaxInfoPolls == 122

\* the link drops during the first cycles of a run only
MaxDropPolls == 2

\* what get_device_info_data returns
InfoValues == {NoInfo, 1, 2}

InfoNext ==
    \/ /\ PollBegin(MaxInfoPolls)
       /\ UNCHANGED entVars
    \/ /\ PollReconnected
       /\ UNCHANGED entVars
    \/ /\ \E r \in {Null, Deg(70)} : (r = Null => ~is_connected) /\ PollCurrent(r)
       /\ UNCHANGED entVars
    \/ /\ \E r \in {Null, Deg(70)} :
              (r = Null => out.res # "True") /\ PollCurrentResume(r)
       /\ UNCHANGED entVars
    \/ /\ \E r \in {Null, Deg(150)} : (r = Null => ~is_connected) /\ PollTarget(r)
       /\ UNCHANGED entVars
    \/ /\ \E r \in {Null, Deg(150)} :
              (r = Null => out.res # "True") /\ PollTargetResume(r)
       /\ UNCHANGED entVars
    \/ /\ \E info \in InfoValues :
              PollState([ok |-> TRUE, data |-> <<0, 0>>], info, FALSE)
       /\ UNCHANGED entVars
    \/ /\ \E o \in {"not_found", "connected"} : ConnectTry(o)
       /\ UNCHANGED <<coordVars, entVars>>
    \/ /\ ConnectNotify("ok")
       /\ UNCHANGED <<coordVars, entVars>>
    \/ /\ ConnectFinish
       /\ UNCHANGED <<coordVars, entVars>>
    \/ /\ ConnectCleanup
       /\ UNCHANGED <<coordVars, entVars>>
    \/ /\ ConnectSleep
       /\ UNCHANGED <<coordVars, entVars>>
    \/ /\ now <= MaxDropPolls
       /\ PollCallback(HandleDisconnect)

InfoSpec == Init /\ [][InfoNext]_vars

-------------------------------------------------------------------------------
(* The entity platforms: climate, fan, button, number *)

\* TEMP_PRESETS, and the temperature of the quick-session button
PresetTemps == {Deg(185), Deg(190), Deg(195), Deg(200)}
QUICK_SESSION_DEGREES == 190

\* the API calls an entity action makes, in order:
\* VolcanoClimate.async_set_hvac_mode (HEAT, OFF) and async_set_temperature,
\* VolcanoFan.async_turn_on (without and with a duration) and async_turn_off,
\* the preset, quick-session and next-session buttons,
\* VolcanoScreenBrightness.async_set_native_value
Calls(kind) ==
    CASE kind = "climate_heat" -> <<"set_heat_on">>
      [] kind = "climate_off" -> <<"set_heat_off">>
      [] kind = "climate_temp" -> <<"set_target_temperature">>
      [] kind = "fan_on" -> <<"set_fan_on">>
      [] kind = "fan_on_timer" -> <<"set_fan_on">>
      [] kind = "fan_off" -> <<"set_fan_off">>
      [] kind = "preset" -> <<"set_target_temperature", "set_heat_on">>
      [] kind = "quick_session" -> <<"set_target_temperature", "set_heat_on">>
      [] kind = "next_session" -> <<"next_temperature_preset">>
      [] kind = "brightness" -> <<"set_screen_brightness">>

\* next_temperature_preset: the target moves to the next preset, the first
\* one after the last
NextPreset(t) ==
    IF \E q \in PresetTemps : q > t
    THEN CHOOSE q \in PresetTemps :
             q > t /\ \A q2 \in PresetTemps : q2 > t => q <= q2
    ELSE CHOOSE q \in PresetTemps : \A q2 \in PresetTemps : q <= q2

NextTemperaturePreset(wr) ==
    /\ pc = "idle"
    /\ IF NotConnected
       THEN /\ wr = "ok"
            /\ FailFast("next_temperature_preset")
       ELSE /\ out' = Out("next_temperature_preset",
                          IF wr = "ok" THEN "ok" ELSE "ConnectionError",
                          <<"write">>, 0, 0, <<>>, <<>>)
            /\ target_temperature' =
                   IF wr = "ok" THEN NextPreset(target_temperature)
                   ELSE target_temperature
            /\ UNCHANGED <<apiVars, current_temperature, heat_on, fan_on, cbVars,
                           connVars>>

\* the API call of an entity action; wr is how its write_gatt_char ends
ApiCall(call, arg, wr) ==
    CASE call = "set_heat_on" -> SetHeatOn(wr)
      [] call = "set_heat_off" -> SetHeatOff(wr)
      [] call = "set_fan_on" -> SetFanOn(wr)
      [] call = "set_fan_off" -> SetFanOff(wr)
      [] call = "set_target_temperature" -> SetTargetTemperature(arg, wr)
      [] call = "set_screen_brightness" -> SetScreenBrightness(arg, wr)
      [] call = "next_temperature_preset" -> NextTemperaturePreset(wr)

\* the call passes the API's range check
CallValid(call, arg) ==
    CASE call = "set_target_temperature" -> ValidTemperature(arg)
      [] call = "set_screen_brightness" -> ValidBrightness(arg)
      [] OTHER -> TRUE

\* await asyncio.sleep(0.1) after the write of a heat or fan switch
Settles(call) ==
    call \in {"set_heat_on", "set_heat_off", "set_fan_on", "set_fan_off"}

\* an entity that handles no error of the API
CatchesNothing(kind, err) == FALSE

\* the except clause of the entity action: VolcanoConnectionError; also
\* ValueError in async_set_temperature; Exception in the brightness number
Catches(kind, err) ==
    CASE kind = "brightness" -> TRUE
      [] kind = "climate_temp" -> err \in {"ConnectionError", "ValueError"}
      [] OTHER -> err = "ConnectionError"

\* await self.coordinator.async_request_refresh() at the end of the action
Refreshes(kind) == kind # "brightness"

\* the task is neither done nor cancelled
TimerLive(ts, i) == ts[i] \in {"sleeping", "writing", "settling"}

\* the timer tasks with the existing one left running
KeepTimer(ts, ref) == ts

\* if self._timer_task and not self._timer_task.done():
\*     self._timer_task.cancel()
\* a task cancelled in its sleep never runs on; one cancelled later has
\* issued its write
CancelTimer(ts, ref) ==
    IF ref # 0 /\ TimerLive(ts, ref)
    THEN [ts EXCEPT ![ref] =
             IF @ = "sleeping" THEN "cancelled" ELSE "cancelled_late"]
    ELSE ts

\* the GATT operations in flight once the tasks cancelled in ts are gone
StillInFlight(ts) ==
    {g \in gatt : g[1] = "timer" => ts[g[2]] = "writing"}

\* the timer task asyncio.create_task makes next
NewTimer(ts) ==
    CHOOSE i \in 1..MaxTimers :
        ts[i] = "none" /\ \A j \in 1..(i - 1) : ts[j] # "none"

\* the action in slot s ends
ActEnd(s, kind, res, err, refresh) ==
    /\ actions' = [actions EXCEPT ![s] = NoAction]
    /\ ent_out' = [kind |-> kind, res |-> res, err |-> err,
                   refresh |-> refresh]

\* the API call raised err: the entity's except clause, or the caller
ActFail(s, kind, err) ==
    ActEnd(s, kind, IF Catches(kind, err) THEN "caught" ELSE "raised", err,
           FALSE)

\* the last API call returned: _schedule_fan_off_timer where a duration was
\* given, then async_request_refresh
ActFinish(s, kind) ==
    /\ ActEnd(s, kind, "done", "none", Refreshes(kind))
    /\ IF kind = "fan_on_timer"
       THEN LET ts == CancelTimer(timers, timer_task)
            IN /\ timers' = [ts EXCEPT ![NewTimer(ts)] = "sleeping"]
               /\ timer_task' = NewTimer(ts)
               /\ gatt' = StillInFlight(ts) \ {<<"action", s>>}
       ELSE /\ gatt' = gatt \ {<<"action", s>>}
            /\ UNCHANGED <<timer_task, timers>>

\* timer tasks are left for the actions that will create one
TimersLeft ==
    Cardinality({i \in 1..MaxTimers : timers[i] = "none"})
        > Cardinality({s \in 1..MaxActions :
                          actions[s].kind = "fan_on_timer"})

\* an entity action is called and runs to its first await: async_turn_off
\* cancels the timer, then the first API call checks the connection and the
\* argument and issues its write
ActStart(s, kind, arg) ==
    /\ pc = "idle"
    /\ actions[s] = NoAction
    /\ kind = "fan_on_timer" => TimersLeft
    /\ LET ts == IF kind = "fan_off" THEN CancelTimer(timers, timer_task)
                 ELSE timers
           call == Head(Calls(kind))
       IN /\ timers' = ts
          /\ timer_task' = IF ts # timers THEN 0 ELSE timer_task
          /\ IF is_connected /\ CallValid(call, arg)
             THEN /\ actions' = [actions EXCEPT ![s] =
                         [kind |-> kind, todo |-> Calls(kind), arg |-> arg,
                          pc |-> "inflight"]]
                  /\ gatt' = StillInFlight(ts) \cup {<<"action", s>>}
                  /\ UNCHANGED <<ent_out, out, apiVars, cacheVars, cbVars,
                                 connVars>>
             ELSE /\ ApiCall(call, arg, "ok")
                  /\ ActFail(s, kind, out'.res)
                  /\ gatt' = StillInFlight(ts)
    /\ UNCHANGED coordVars

\* the write of the action's API call ends: the call returns or raises; a
\* heat or fan switch then sleeps, another call is followed at once by the
\* next call or by the end of the action
ActComplete(s, wr) ==
    /\ actions[s].pc = "inflight"
    /\ LET a == actions[s]
           call == Head(a.todo)
       IN /\ ApiCall(call, a.arg, wr)
          /\ IF out'.res # "ok"
             THEN /\ ActFail(s, a.kind, out'.res)
                  /\ gatt' = gatt \ {<<"action", s>>}
                  /\ UNCHANGED <<timer_task, timers>>
             ELSE IF Settles(call)
             THEN /\ actions' = [actions EXCEPT ![s].todo = Tail(a.todo),
                                               ![s].pc = "settle"]
                  /\ gatt' = gatt \ {<<"action", s>>}
                  /\ UNCHANGED <<ent_out, timer_task, timers>>
             ELSE IF Tail(a.todo) = <<>>
             THEN ActFinish(s, a.kind)
             ELSE /\ CallValid(Head(Tail(a.todo)), a.arg)
                  /\ actions' = [actions EXCEPT ![s].todo = Tail(a.todo)]
                  /\ UNCHANGED <<ent_out, timer_task, timers, gatt>>
    /\ UNCHANGED coordVars

\* the sleep after the write is over: the next API call, or the end of the
\* action
ActResume(s) ==
    /\ pc = "idle"
    /\ actions[s].pc = "settle"
    /\ LET a == actions[s]
       IN IF a.todo = <<>>
          THEN /\ ActFinish(s, a.kind)
               /\ UNCHANGED <<out, apiVars, cacheVars, cbVars, connVars>>
          ELSE IF is_connected /\ CallValid(Head(a.todo), a.arg)
          THEN /\ actions' = [actions EXCEPT ![s].pc = "inflight"]
               /\ gatt' = gatt \cup {<<"action", s>>}
               /\ UNCHANGED <<ent_out, timer_task, timers, out, apiVars,
                              cacheVars, cbVars, connVars>>
          ELSE /\ ApiCall(Head(a.todo), a.arg, "ok")
               /\ ActFail(s, a.kind, out'.res)
               /\ UNCHANGED <<timer_task, timers, gatt>>
    /\ UNCHANGED coordVars

\* turn_off_after_delay: the delay is over and the task calls set_fan_off,
\* which checks the connection and issues its write
TimerExpire(i) ==
    /\ pc = "idle"
    /\ timers[i] = "sleeping"
    /\ IF is_connected
       THEN /\ timers' = [timers EXCEPT ![i] = "writing"]
            /\ gatt' = gatt \cup {<<"timer", i>>}
            /\ UNCHANGED <<out, apiVars, cacheVars, cbVars, connVars>>
       ELSE /\ SetFanOff("ok")
            /\ timers' = [timers EXCEPT ![i] = "failed"]
            /\ UNCHANGED gatt
    /\ UNCHANGED <<coordVars, actions, ent_out, timer_task>>

\* the task sleeping again after a failed write, to try once more
TimerCompleteRetrying(i, wr) ==
    /\ timers[i] = "writing"
    /\ SetFanOff(wr)
    /\ timers' = [timers EXCEPT ![i] =
                     IF out'.res = "ok" THEN "settling" ELSE "sleeping"]
    /\ gatt' = gatt \ {<<"timer", i>>}
    /\ UNCHANGED <<coordVars, actions, ent_out, timer_task>>

\* turn_off_after_delay: the write of set_fan_off ends
TimerComplete(i, wr) ==
    /\ timers[i] = "writing"
    /\ SetFanOff(wr)
    /\ timers' = [timers EXCEPT ![i] =
                     IF out'.res = "ok" THEN "settling" ELSE "failed"]
    /\ gatt' = gatt \ {<<"timer", i>>}
    /\ UNCHANGED <<coordVars, actions, ent_out, timer_task>>

\* turn_off_after_delay: the sleep of set_fan_off is over, the refresh is
\* requested and the task is done
TimerSettled(i) ==
    /\ timers[i] = "settling"
    /\ timers' = [timers EXCEPT ![i] = "done"]
    /\ UNCHANGED <<out, apiVars, cacheVars, cbVars, connVars, coordVars,
                   actions, ent_out, timer_task, gatt>>

\* the poll cycle issues the GATT read of its next step
PollIssue ==
    /\ pc = "idle"
    /\ poll_pc \in {"current", "target", "state"}
    /\ is_connected
    /\ <<"poll", 0>> \notin gatt
    /\ gatt' = gatt \cup {<<"poll", 0>>}
    /\ UNCHANGED <<out, apiVars, cacheVars, cbVars, connVars, coordVars,
                   actions, ent_out, timer_task, timers>>

\* the GATT read of a step of the poll cycle ends and the step runs on
PollRead(A) ==
    /\ is_connected => <<"poll", 0>> \in gatt
    /\ A
    /\ gatt' = gatt \ {<<"poll", 0>>}
    /\ UNCHANGED <<actions, ent_out, timer_task, timers>>

------------------------------------------------------------------------------
(* The entity actions on a device the coordinator polls *)

\* the poll cycles of a run
MaxEntityPolls == 1

\* the arguments of an action: the temperature, or the brightness
ActionArgs(kind) ==
    CASE kind = "climate_temp" -> {Deg(39), Deg(180)}
      [] kind = "preset" -> {Deg(185)}
      [] kind = "quick_session" -> {Deg(QUICK_SESSION_DEGREES)}
      [] kind = "brightness" -> {70, 101}
      [] OTHER -> {0}

ActionKinds ==
    {"climate_heat", "climate_off", "climate_temp", "fan_on", "fan_on_timer",
     "fan_off", "preset", "quick_session", "next_session", "brightness"}

\* one action at a time, between and during the steps of the poll cycle; no
\* fan timer runs out
EntityNext ==
    \/ /\ PollBegin(MaxEntityPolls)
       /\ UNCHANGED entVars
    \/ /\ PollReconnected
       /\ UNCHANGED entVars
    \/ /\ PollCurrent(Deg(70))
       /\ UNCHANGED entVars
    \/ /\ PollTarget(Deg(180))
       /\ UNCHANGED entVars
    \/ /\ PollState([ok |-> TRUE, data |-> <<0, 0>>], 1, FALSE)
       /\ UNCHANGED entVars
    \/ /\ ConnectTry("connected")
       /\ UNCHANGED <<coordVars, entVars>>
    \/ /\ ConnectNotify("ok")
       /\ UNCHANGED <<coordVars, entVars>>
    \/ /\ ConnectFinish
       /\ UNCHANGED <<coordVars, entVars>>
    \/ \E kind \in ActionKinds :
           \E arg \in ActionArgs(kind) : ActStart(1, kind, arg)
    \/ \E wr \in {"ok", "fail"} : ActComplete(1, wr)
    \/ ActResume(1)

EntitySpec == Init /\ [][EntityNext]_vars

------------------------------------------------------------------------------
(* The fan entity, its timer and the poll cycle on one connection *)

\* the poll cycles of a run
MaxGattPolls == 1

FanKinds == {"fan_on", "fan_on_timer", "fan_off"}

\* fan actions overlap each other, the timer task and the poll cycle
GattNext ==
    \/ /\ PollBegin(MaxGattPolls)
       /\ UNCHANGED entVars
    \/ /\ PollReconnected
       /\ UNCHANGED entVars
    \/ PollIssue
    \/ PollRead(PollCurrent(Deg(70)))
    \/ PollRead(PollTarget(Deg(180)))
    \/ PollRead(PollState([ok |-> TRUE, data |-> <<2, 0>>], 1, FALSE))
    \/ /\ ConnectTry("connected")
       /\ UNCHANGED <<coordVars, entVars>>
    \/ /\ ConnectNotify("ok")
       /\ UNCHANGED <<coordVars, entVars>>
    \/ /\ ConnectFinish
       /\ UNCHANGED <<coordVars, entVars>>
    \/ \E s \in 1..MaxActions, kind \in FanKinds : ActStart(s, kind, 0)
    \/ \E s \in 1..MaxActions, wr \in {"ok", "fail"} : ActComplete(s, wr)
    \/ \E s \in 1..MaxActions : ActResume(s)
    \/ \E i \in 1..MaxTimers : TimerExpire(i)
    \/ \E i \in 1..MaxTimers, wr \in {"ok", "fail"} : TimerComplete(i, wr)
    \/ \E i \in 1..MaxTimers : TimerSettled(i)

GattSpec == Init /\ [][GattNext]_vars

\* the event loop runs every task that is ready: a connection attempt under
\* way runs on, a timer's sleep ends, its write completes and its settling
\* sleep ends
GattFairSpec ==
    /\ GattSpec
    /\ WF_vars(/\ \/ ConnectTry("connected")
                  \/ ConnectNotify("ok")
                  \/ ConnectFinish
               /\ UNCHANGED <<coordVars, entVars>>)
    /\ \A i \in 1..MaxTimers :
          /\ WF_vars(TimerExpire(i))
          /\ WF_vars(\E wr \in {"ok", "fail"} : TimerComplete(i, wr))
          /\ WF_vars(TimerSettled(i))

------------------------------------------------------------------------------
(* Properties *)

\* the public read and write operations of the API
PublicOps ==
    {"set_target_temperature", "set_heat_on", "set_heat_off", "set_fan_on",
     "set_fan_off", "set_screen_brightness", "get_device_state"}
        \cup InfoReads

\* bit k of v
Bit(v, k) == (v \div (2 ^ k)) % 2 = 1

\* the steps that read a status payload and may decode it
DecodeOps ==
    {"_handle_status_notification", "_update_status_from_register",
     "get_device_state"}

\* C1: a public read or write operation called while is_connected is false
\* fails with ConnectionError, issues no GATT read or write, starts no
\* connection attempt and leaves the link and the cache as they are.
C1_FailFast ==
    [][(out'.op \in PublicOps /\ ~is_connected)
          => /\ out'.res = "ConnectionError"
             /\ out'.io = <<>>
             /\ pc' = "idle"
             /\ UNCHANGED <<apiVars, cacheVars, connVars>>]_vars

\* C1 witness: set_heat_on has failed fast on a stale flag (the flag is set,
\* the client has dropped)
C1_Witness ==
    /\ out.op = "set_heat_on"
    /\ out.res = "ConnectionError"
    /\ out.io = <<>>
    /\ flag
    /\ ~client_conn

\* connect within its cap: while the call runs, no more attempts are started
\* than max_retries and as many sleeps have been taken as attempts completed,
\* and a sleep is taken only when another attempt follows; on return, at
\* least one and at most max_retries attempts were started and one sleep
\* fewer than attempts was taken
C2_Inv ==
    /\ pc # "idle" => /\ attempts_started <= max_retries
                      /\ attempt < max_retries
                      /\ sleeps = attempt
                      /\ pc = "sleep" => attempts_started < max_retries
    /\ out.op = "connect" => /\ out.ret[3] >= 1
                             /\ out.ret[3] <= out.ret[2]
                             /\ out.ret[4] = out.ret[3] - 1

\* C2: for every max_retries >= 1 and every pattern of attempt outcomes,
\* connect starts at most max_retries attempts, sleeps only between two
\* attempts and never after the last, and always ends by returning or raising.
C2_ConnectBounded == []C2_Inv /\ ((pc # "idle") ~> (pc = "idle"))

\* C2 witness: connect has ended after MaxRetries failed attempts, the cap
C2_Witness ==
    /\ out.op = "connect"
    /\ out.res # "True"
    /\ out.ret[2] = MaxRetries
    /\ out.ret[3] = MaxRetries
    /\ out.ret[4] = MaxRetries - 1

\* C3: when all max_retries attempts of connect fail, connect raises
\* ConnectionError carrying the last underlying error; it does not return
\* normally.
C3_ExhaustedRaises ==
    (out.op = "connect" /\ out.res # "True")
        => /\ out.res = "ConnectionError"
           /\ out.ret[1] # "none"

\* C4 as stated: whenever connect returns True, the flag is set, the client
\* reports connected and the subscription to the status register is active.
C4_SuccessSubscribed ==
    (out.op = "connect" /\ out.res = "True")
        => /\ flag
           /\ client # "none"
           /\ client_conn
           /\ sub_status

\* C4 amended: whenever connect returns True, the flag is set and a client
\* handle is held, and the client reports connected with the subscription to
\* the status register active unless a start_notify call failed (which is
\* logged and swallowed) or the link has dropped since client.connect().
C4_SuccessFlagSet ==
    (out.op = "connect" /\ out.res = "True")
        => /\ flag
           /\ client # "none"
           /\ client_conn => (sub_status \/ out.ret[5] = "failed")

\* C4 witness: connect has returned True with the status subscription active
C4_Witness ==
    /\ out.op = "connect"
    /\ out.res = "True"
    /\ is_connected
    /\ sub_status

\* C5: after disconnect returns, whether there was no client, the client was
\* already disconnected, the unsubscribe failed or the close failed, the flag
\* is false and the client handle is cleared, and disconnect has not raised.
C5_DisconnectClears ==
    out.op = "disconnect"
        => /\ ~flag
           /\ client = "none"
           /\ out.res = "none"

\* C5 witness: disconnect has returned after the close call failed
C5_Witness ==
    /\ out.op = "disconnect"
    /\ out.ret = <<"close_fails">>
    /\ client = "none"

\* C6: is_connected is true only if both the flag is set and the client
\* reports itself connected; a stale flag or a missing handle never yields
\* true.
C6_IsConnectedBoth ==
    is_connected => (flag /\ client # "none" /\ client_conn)

\* C6 witness: the flag is stale (set, with the client handle gone) and
\* is_connected is false
C6_Witness ==
    /\ flag
    /\ client = "none"
    /\ ~is_connected

\* C7: an involuntary disconnect clears the flag and invokes the registered
\* disconnect callback exactly once (not at all when none is registered);
\* afterwards is_connected turns true only in a connect call whose
\* client.connect() has succeeded.
C7_InvoluntaryDisconnect ==
    [][/\ out'.op = "_handle_disconnect"
            => /\ ~flag'
               /\ ~is_connected'
               /\ out'.cb = (IF disconnect_callback THEN 1 ELSE 0)
       /\ (~is_connected /\ is_connected')
            => \/ out'.op = "connect" /\ out'.res = "True"
               \/ out'.op = "connect_try" /\ out'.res = "connected"]_vars

\* C7 witness: the link has dropped and the callback has been invoked once
C7_Witness ==
    /\ out.op = "_handle_disconnect"
    /\ out.cb = 1
    /\ ~flag
    /\ ~is_connected

\* the validation a set operation applies to its argument
C8_Valid(o) ==
    IF o.op = "set_target_temperature"
    THEN MIN_TEMP * 10 <= o.arg[1] /\ o.arg[1] <= MAX_TEMP * 10
    ELSE MIN_BRIGHTNESS <= o.arg[1] /\ o.arg[1] <= MAX_BRIGHTNESS

\* C8 as stated: a temperature outside [40, 230] or a brightness outside
\* [0, 100] is rejected with a validation error before any GATT write, the
\* cached target temperature unchanged; values on the bounds are accepted.
C8_RejectsWithValueError ==
    [][out'.op \in {"set_target_temperature", "set_screen_brightness"}
          => IF C8_Valid(out')
             THEN out'.res # "ValueError"
             ELSE /\ out'.res = "ValueError"
                  /\ out'.io = <<>>
                  /\ target_temperature' = target_temperature]_vars

\* C8 amended: a temperature outside [40, 230] or a brightness outside
\* [0, 100] is rejected before any GATT write is issued, the cached target
\* temperature unchanged: with a validation error when the device is
\* connected, with ConnectionError when it is not (the connection is checked
\* first); when connected, values on the bounds pass validation and are
\* written.
C8_RejectsBeforeWrite ==
    [][out'.op \in {"set_target_temperature", "set_screen_brightness"}
          => IF C8_Valid(out')
             THEN /\ out'.res # "ValueError"
                  /\ is_connected => out'.io = <<"write">>
             ELSE /\ out'.res = (IF is_connected THEN "ValueError"
                                 ELSE "ConnectionError")
                  /\ out'.io = <<>>
                  /\ target_temperature' = target_temperature]_vars

\* C8 witness: 230 degrees has been accepted and cached, on a connected device
C8_Witness ==
    /\ out.op = "set_target_temperature"
    /\ out.arg = <<2300>>
    /\ out.res = "ok"
    /\ target_temperature = 2300

\* C9: on every path that decodes a status payload of at least two bytes,
\* heat_on is bit 5 and fan_on is bit 13 of the 16-bit little-endian value.
C9_DecodeMasks ==
    (/\ out.op \in DecodeOps
     /\ out.res \in {"decoded", "ok"}
     /\ Len(out.data) >= 2)
        => /\ heat_on = Bit(out.data[1] + 256 * out.data[2], 5)
           /\ fan_on = Bit(out.data[1] + 256 * out.data[2], 13)

\* C10: on every status-register decode path a payload shorter than two bytes
\* is not decoded: the cached heat_on and fan_on stay as they are.
C10_ShortReadIgnored ==
    [][(out'.op \in DecodeOps /\ Len(out'.data) < 2)
          => UNCHANGED <<heat_on, fan_on>>]_vars

------------------------------------------------------------------------------
(* Properties of the poll cycle *)

\* an API call of the running cycle raises ConnectionError to the cycle: the
\* reconnect has raised, or get_device_state finds the device not connected
CycleMeetsConnectionError ==
    \/ PollAt("reconnect") /\ out.res = "ConnectionError"
    \/ PollAt("state") /\ NotConnected

\* C11: a ConnectionError raised to a poll cycle by the reconnect or by a
\* read never leaves _async_update_data: the cycle ends by returning the
\* disconnected snapshot (connected false, both temperatures null, heat and
\* fan false), which the coordinator then holds.
C11_ConnectionErrorCaught ==
    [][(CycleMeetsConnectionError /\ cycle' # cycle)
          => /\ poll_pc' = "idle"
             /\ cycle'.res = "disconnected"
             /\ coord_data'.kind = "disconnected"
             /\ ~coord_data'.connected
             /\ coord_data'.current_temperature = Null
             /\ coord_data'.target_temperature = Null
             /\ ~coord_data'.heat_on
             /\ ~coord_data'.fan_on]_vars

\* C11 witness: a cycle that began on a connected device and read a
\* temperature has ended with the disconnected snapshot, the link having
\* dropped before the status read
C11_Witness ==
    /\ poll_pc = "idle"
    /\ cycle.began = "connected"
    /\ cycle.res = "disconnected"
    /\ cycle.calls # <<>>
    /\ cycle.calls[Len(cycle.calls)] = "get_device_state"
    /\ coord_data = DisconnectedSnapshot

\* a cycle that began on a disconnected device calls connect before it
\* calls anything else
ConnectsBeforeReads ==
    cycle.began = "disconnected"
        => /\ cycle.calls # <<>>
           /\ cycle.calls[1] = "connect"

\* C12: a poll cycle that begins with is_connected false makes a connect
\* attempt before any device read, also after cycles that failed, and a cycle
\* that reaches the device (it reads the status of a connected device)
\* returns a connected snapshot.
C12_ReconnectsEveryCycle ==
    /\ []ConnectsBeforeReads
    /\ [][/\ (PollAt("idle") /\ ~is_connected /\ cycle' # cycle)
               => /\ cycle'.began = "disconnected"
                  /\ cycle'.calls = <<"connect">>
                  /\ pc' = "try"
          /\ (PollAt("state") /\ is_connected /\ cycle' # cycle)
               => /\ cycle'.res = "snapshot"
                  /\ coord_data'.kind = "snapshot"
                  /\ coord_data'.connected]_vars

\* the place of the first call named op in calls, Len(calls) + 1 if none
RECURSIVE FirstCall(_, _, _)
FirstCall(calls, op, i) ==
    IF i > Len(calls) \/ calls[i] = op THEN i ELSE FirstCall(calls, op, i + 1)

\* the connect calls the cycle's get_current_temperature has made: those
\* after it was called and before get_target_temperature was
CurrentReconnects ==
    LET from == FirstCall(cycle.calls, "get_current_temperature", 1)
        to == FirstCall(cycle.calls, "get_target_temperature", 1)
    IN  Cardinality({i \in from..to :
                        i <= Len(cycle.calls) /\ cycle.calls[i] = "connect"})

\* C13: get_current_temperature invoked while is_connected is false makes
\* exactly one reconnect attempt, and where that fails it returns null and
\* does not raise (the cycle goes on to the target temperature); invoked
\* while is_connected is true it makes no reconnect attempt.
C13_OneReconnectOnRead ==
    /\ [](/\ cycle.cur_conn = "no" => CurrentReconnects = 1
          /\ cycle.cur_conn = "yes" => CurrentReconnects = 0)
    /\ [][(PollAt("current_reconnect") /\ out.res # "True"
                /\ poll_pc' # poll_pc)
              => /\ current_temp' = Null
                 /\ out'.op = "get_current_temperature"
                 /\ out'.res = "null"
                 /\ poll_pc' = "target"
                 /\ cycle'.res = "running"]_vars

\* C13 witness: get_current_temperature was invoked on a disconnected
\* device, its reconnect failed and it has returned null
C13_Witness ==
    /\ poll_pc = "target"
    /\ pc = "idle"
    /\ cycle.cur_conn = "no"
    /\ CurrentReconnects = 1
    /\ out.op = "get_current_temperature"
    /\ out.res = "null"
    /\ out.io = <<>>
    /\ current_temp = Null

------------------------------------------------------------------------------
(* Properties of the session detection *)

\* the step that ends a poll cycle which read the device: the session
\* tracking has run on the readings of the cycle.  Before the step,
\* last_temp and last_fan_state are the current temperature and the fan
\* state of the previous such cycle (a cycle that ends with the disconnected
\* snapshot records nothing).
Tracked ==
    /\ poll_pc = "state"
    /\ poll_pc' = "idle"
    /\ cycle'.res \in {"snapshot", "UpdateFailed"}

\* the events of the two kinds in events alternate, the first differing from
\* prev; the first event ever (prev = "none") is the event first
RECURSIVE Alternate(_, _, _, _)
Alternate(prev, events, first, second) ==
    IF events = <<>> THEN TRUE
    ELSE IF Head(events) \notin {first, second}
    THEN Alternate(prev, Tail(events), first, second)
    ELSE /\ Head(events) # prev
         /\ prev = "none" => Head(events) = first
         /\ Alternate(Head(events), Tail(events), first, second)

\* C14: a poll fires session_started exactly when the previous poll's
\* current temperature was known and below 50, the new current temperature
\* is above 60, the target is above 100 and no session is open, and then
\* once.  For the samples 30, 45, 70 with target 150: nothing on the first
\* (no previous temperature), nothing on the second (45 after 30), one
\* session_started on the third (70 after 45, no session so far).
C14_SessionStart ==
    [][Tracked =>
        /\ Count(cycle'.events, "session_started") =
              IF /\ last_temp # Null
                 /\ last_temp < Deg(50)
                 /\ current_temp # Null
                 /\ current_temp > Deg(60)
                 /\ target_temp # Null
                 /\ target_temp > Deg(100)
                 /\ session_start_time = Null
              THEN 1 ELSE 0
        /\ (last_temp = Null /\ current_temp = Deg(30))
              => Count(cycle'.events, "session_started") = 0
        /\ (last_temp = Deg(30) /\ current_temp = Deg(45))
              => Count(cycle'.events, "session_started") = 0
        /\ (last_temp = Deg(45) /\ current_temp = Deg(70)
                /\ target_temp = Deg(150) /\ total_sessions = 0)
              => /\ Count(cycle'.events, "session_started") = 1
                 /\ total_sessions' = 1]_vars

\* C14 witness: the third poll of a run has read 70 degrees with target 150
\* and fired the first session_started
C14_Witness ==
    /\ poll_pc = "idle"
    /\ now = 3
    /\ device_info_counter = 3
    /\ last_temp = Deg(70)
    /\ last_target_temp = Deg(150)
    /\ Count(cycle.events, "session_started") = 1
    /\ total_sessions = 1
    /\ session_start_time = 3

\* C15: at most one session is open: session_started is never fired while
\* a session is open, so session_started and session_ended alternate in the
\* stream of events, beginning with session_started; a session is open
\* exactly after a session_started that no session_ended has followed.
C15_OneOpenSession ==
    /\ [](session_start_time # Null <=> bus_last.session = "session_started")
    /\ [][Tracked =>
            /\ Alternate(bus_last.session, cycle'.events, "session_started",
                         "session_ended")
            /\ session_start_time # Null
                  => Count(cycle'.events, "session_started") = 0]_vars

\* C15 witness: a second session has started after the first one ended
C15_Witness ==
    /\ total_sessions = 2
    /\ Len(session_durations) = 1
    /\ session_start_time # Null
    /\ bus_last.session = "session_started"

\* the end condition of C16 on the readings of the poll that is ending:
\* (current < 50 and previous current > 80) or (the fan was on at the
\* previous poll, is off now, and current > 100)
EndCondition ==
    /\ current_temp # Null
    /\ \/ current_temp < Deg(50) /\ last_temp # Null /\ last_temp > Deg(80)
       \/ last_fan_state /\ ~fan_on' /\ current_temp > Deg(100)

\* a session is open when the poll looks for its end: it was open before
\* the poll, or the poll has just started it
OpenAtEnd ==
    session_start_time # Null \/ Count(cycle'.events, "session_started") = 1

\* the start of that session
OpenSince == IF session_start_time # Null THEN session_start_time ELSE now

\* C16: while a session is open, a poll ends it exactly when the end
\* condition holds; on end one session_ended is fired, one duration (now
\* minus session start) is appended and session_start_time becomes null;
\* when no session is open no session_ended is fired and no duration is
\* appended.
C16_SessionEnd ==
    [][Tracked =>
        IF OpenAtEnd /\ EndCondition
        THEN /\ Count(cycle'.events, "session_ended") = 1
             /\ session_durations' = Append(session_durations, now - OpenSince)
             /\ session_start_time' = Null
        ELSE /\ Count(cycle'.events, "session_ended") = 0
             /\ session_durations' = session_durations
             /\ OpenAtEnd => session_start_time' = OpenSince]_vars

\* the last n entries of a list, in order
LastN(seq, n) ==
    IF Len(seq) <= n THEN seq ELSE SubSeq(seq, Len(seq) - n + 1, Len(seq))

\* the mean of a list as <<sum, count>>, <<>> for null
RECURSIVE Total(_, _)
Total(seq, i) == IF i > Len(seq) THEN 0 ELSE seq[i] + Total(seq, i + 1)
MeanOf(seq) == IF Len(seq) = 0 THEN <<>> ELSE <<Total(seq, 1), Len(seq)>>

RECURSIVE FanEventsOf(_)
FanEventsOf(events) ==
    IF events = <<>> THEN <<>>
    ELSE IF Head(events) \in {"fan_started", "fan_stopped"}
    THEN <<Head(events)>> \o FanEventsOf(Tail(events))
    ELSE FanEventsOf(Tail(events))

\* C18: a poll that reads the device status fires exactly one fan_started
\* when the fan was off at the previous such poll and is on now, exactly
\* one fan_stopped when it was on and is off now, and no fan event when it
\* did not change, whether or not a session is open; the fan state it
\* compares with is the one the previous such poll read (off before the
\* first), so fan_started and fan_stopped alternate.
C18_FanEvents ==
    /\ [][Tracked =>
            /\ FanEventsOf(cycle'.events) =
                   IF fan_on' /\ ~last_fan_state THEN <<"fan_started">>
                   ELSE IF ~fan_on' /\ last_fan_state THEN <<"fan_stopped">>
                   ELSE <<>>
            /\ last_fan_state' = fan_on'
            /\ Alternate(bus_last.fan, cycle'.events, "fan_started",
                         "fan_stopped")]_vars
    /\ [][~Tracked => last_fan_state' = last_fan_state]_vars
    /\ [](last_fan_state <=> bus_last.fan = "fan_started")

\* C18 witness: with no session ever open, a poll found the fan on and fired
\* fan_started, and the latest poll found it off and fired one fan_stopped
C18_Witness ==
    /\ poll_pc = "idle"
    /\ cycle.res = "snapshot"
    /\ total_sessions = 0
    /\ ~last_fan_state
    /\ bus_last.fan = "fan_stopped"
    /\ FanEventsOf(cycle.events) = <<"fan_stopped">>

\* C19: a poll fires temperature_reached exactly when the current
\* temperature is at least the target minus 5 and the previous poll's
\* current temperature was known and below the target minus 5, and then
\* once; a poll that finds the temperature at or above that threshold after
\* a poll that already found it there fires none.
C19_TemperatureReached ==
    [][Tracked =>
        /\ Count(cycle'.events, "temperature_reached") =
              IF /\ current_temp # Null
                 /\ target_temp # Null
                 /\ current_temp >= target_temp - Deg(5)
                 /\ last_temp # Null
                 /\ last_temp < target_temp - Deg(5)
              THEN 1 ELSE 0
        /\ (/\ current_temp # Null
            /\ target_temp # Null
            /\ last_temp # Null
            /\ last_temp >= target_temp - Deg(5)
            /\ current_temp >= target_temp - Deg(5))
              => Count(cycle'.events, "temperature_reached") = 0]_vars

\* C19 witness: a poll has read 145 degrees with target 150 after a poll
\* that read less, and fired temperature_reached
C19_Witness ==
    /\ poll_pc = "idle"
    /\ last_temp = Deg(145)
    /\ last_target_temp = Deg(150)
    /\ Count(cycle.events, "temperature_reached") = 1

\* the rows of the interval table of C20 on numbers: within 10 degrees of
\* the target is a target that is set (above 0) and a current temperature
\* above the target minus 10
TableRow(heat, fan, cur, tgt) ==
    IF fan THEN 1
    ELSE IF heat /\ tgt > 0 /\ cur > tgt - Deg(10) THEN 1
    ELSE IF heat \/ (tgt > 0 /\ cur < tgt) THEN 2
    ELSE IF cur > Deg(50) THEN 3
    ELSE 5

\* the snapshot the poll computes its interval from has these fields (a
\* coordinator without a snapshot reads heat and fan off and temperatures 0)
Held(heat, fan, cur, tgt) ==
    /\ DataHeat(coord_data) = heat
    /\ DataFan(coord_data) = fan
    /\ DataCurrent(coord_data) = cur
    /\ DataTarget(coord_data) = tgt

C21_CallbackOnChange ==
    [][(/\ out'.op = "_handle_status_notification"
        /\ status_callback
        /\ Len(out'.data) >= 2)
        => out'.scb =
              IF \/ DecodeHeat(LE16(out'.data)) # heat_on
                 \/ DecodeFan(LE16(out'.data)) # fan_on
              THEN 1 ELSE 0]_vars

\* C21 witness: a notification that turned only the fan bit on has invoked
\* the callback once
C21_Witness ==
    /\ out.op = "_handle_status_notification"
    /\ out.data = <<0, 32>>
    /\ out.scb = 1
    /\ fan_on
    /\ ~heat_on

\* a poll-driven status read has just returned
StatusReadDone(res) ==
    /\ out'.op \in {"get_device_state", "_update_status_from_register"}
    /\ out'.res = res

\* C22: a poll-driven status read that returns the register (two bytes or
\* more) leaves in the cache the heat_on and fan_on decoded from it (bit 5
\* and bit 13), whatever a notification or an optimistic write had put
\* there; a read that raises leaves the cache as it was, and
\* get_device_state then reports the cached values.
C22_PollOverwrites ==
    [][/\ (StatusReadDone("ok") /\ Len(out'.data) >= 2)
            => /\ heat_on' = DecodeHeat(LE16(out'.data))
               /\ fan_on' = DecodeFan(LE16(out'.data))
       /\ StatusReadDone("read_failed")
            => /\ heat_on' = heat_on
               /\ fan_on' = fan_on
               /\ out'.op = "get_device_state"
                     => (out'.ret[3] = heat_on /\ out'.ret[4] = fan_on)]_vars

\* a deferred turn-off is pending: its task was created and is neither done
\* nor cancelled
Pending(i) == timers[i] \in {"sleeping", "writing", "settling"}

\* async_turn_off is called in this step: it issues its write, or fails
\* before it
TurnsOff ==
    \E s \in 1..MaxActions :
        /\ actions[s].pc = "idle"
        /\ \/ actions'[s].kind = "fan_off"
           \/ /\ actions' = actions
              /\ ent_out'.kind = "fan_off"
              /\ ent_out' # ent_out

\* C23: at most one deferred fan-off timer is pending, and it is the one
\* the fan entity refers to; a call of async_turn_off leaves none pending;
\* a newly scheduled timer is the only one pending; a timer cancelled in
\* its delay stays cancelled, and only a timer that was pending in its delay
\* issues a fan-off write.
C23_OneTimerPending ==
    /\ [](Cardinality({i \in 1..MaxTimers : Pending(i)}) <= 1)
    /\ [](\A i \in 1..MaxTimers : Pending(i) => timer_task = i)
    /\ [][TurnsOff => \A i \in 1..MaxTimers : ~Pending(i)']_vars
    /\ [][\A i \in 1..MaxTimers :
            (timers[i] = "none" /\ timers'[i] = "sleeping")
                => /\ timer_task' = i
                   /\ \A j \in 1..MaxTimers : j # i => ~Pending(j)']_vars
    /\ [][\A i \in 1..MaxTimers :
            /\ timers[i] = "cancelled" => timers'[i] = "cancelled"
            /\ (<<"timer", i>> \in gatt' /\ <<"timer", i>> \notin gatt)
                 => timers[i] = "sleeping"]_vars

\* C23 witness: the first timer was cancelled in its delay by the scheduling
\* of the second, which is pending; the fan is on
C23_Witness ==
    /\ timers[1] = "cancelled"
    /\ timers[2] = "sleeping"
    /\ timer_task = 2
    /\ fan_on
    /\ gatt = {}

\* C24: whatever the interleaving of the poll cycle, the entity actions and
\* the fan-off timer task, at most one GATT operation is in flight on the
\* connection: a read or write is issued only when the previous one has
\* completed.
C24_OneGattOperation == Cardinality(gatt) <= 1

\* an entity action ends in this step
ActionEnds ==
    \/ ent_out' # ent_out
    \/ \E s \in 1..MaxActions : actions[s] # NoAction /\ actions'[s] = NoAction

\* C25: an entity action (climate mode and temperature, fan on and off, the
\* preset, next-session and quick-session buttons, the brightness number)
\* whose API call fails with a transport error ends without raising to its
\* caller: the error is caught, no coordinator refresh is requested, and the
\* snapshot the coordinator holds is the same as before.
C25_ErrorsSwallowed ==
    [][(ActionEnds /\ out'.res = "ConnectionError")
        => /\ ent_out'.res = "caught"
           /\ ent_out'.err = "ConnectionError"
           /\ ~ent_out'.refresh
           /\ coord_data' = coord_data]_vars

\* C25 witness: with a snapshot held, the preset button has written the
\* target temperature and its set_heat_on has failed: the error was caught
\* and no refresh was requested
C25_Witness ==
    /\ ent_out = [kind |-> "preset", res |-> "caught",
                  err |-> "ConnectionError", refresh |-> FALSE]
    /\ out.op = "set_heat_on"
    /\ out.io = <<"write">>
    /\ target_temperature = Deg(185)
    /\ coord_data.kind = "snapshot"
    /\ coord_data.target_temperature = Deg(180)

\* a poll cycle ends in this step
CycleEnds == poll_pc # "idle" /\ poll_pc' = "idle"

\* the get_device_state call of the cycle that ends has returned
StatusReturned ==
    /\ Len(cycle'.calls) >= 2
    /\ SubSeq(cycle'.calls, Len(cycle'.calls) - 1, Len(cycle'.calls))
           = <<"get_device_state", "read">>

\* C26 as stated: the device information is read only on a cycle whose
\* counter is a multiple of 120, every poll cycle increases the counter by
\* one, and every other cycle puts the cached device information into its
\* snapshot.
C26_EveryCycleCounts ==
    [][CycleEnds
        => /\ cycle'.fetch => device_info_counter % DEVICE_INFO_CYCLES = 0
           /\ device_info_counter' = device_info_counter + 1
           /\ (~cycle'.fetch /\ cached_device_info # Null)
                 => /\ cycle'.res = "snapshot"
                    /\ cycle'.info = cached_device_info]_vars

\* C26: the device information is read only on a cycle whose counter is a
\* multiple of 120; the counter increases by one on every cycle whose
\* get_device_state call returns and stays as it is on a cycle that ends
\* before that; the cache is what the last read that returned any
\* information returned; and every cycle that returns a snapshot without
\* reading the device information puts the cache into it.
C26_SlowPath ==
    [][CycleEnds
        => /\ cycle'.fetch => device_info_counter % DEVICE_INFO_CYCLES = 0
           /\ device_info_counter' =
                  IF StatusReturned THEN device_info_counter + 1
                  ELSE device_info_counter
           /\ cached_device_info' =
                  IF cycle'.fetch /\ cycle'.info # NoInfo
                  THEN cycle'.info ELSE cached_device_info
           /\ (cycle'.res = "snapshot" /\ ~cycle'.fetch)
                 => cycle'.info = IF cached_device_info # Null
                                  THEN cached_device_info ELSE NoInfo]_vars

\* C26 witness: cycle 122 of a run without a failed cycle has put into its
\* snapshot the device information that cycle 121, the second to read it,
\* has cached
C26_Witness ==
    /\ poll_pc = "idle"
    /\ now = 122
    /\ device_info_counter = 122
    /\ cycle.res = "snapshot"
    /\ ~cycle.fetch
    /\ cycle.info = 2
    /\ cached_device_info = 2

\* C27: a valid temperature, packed by set_target_temperature as an
\* unsigned 16-bit little-endian number of tenths and unpacked by
\* _handle_temperature_notification as raw / 10, comes back within a tenth
\* of a degree, and the number packed is below 2^16.
C27_RoundTrip ==
    /\ [](out.op = "set_target_temperature" /\ out.res = "ok"
            => /\ ValidTemperature(out.arg[1])
               /\ out.arg[1] < 65536
               /\ Len(out.data) = 2
               /\ LE16(out.data) - out.arg[1] \in -1..1)
    /\ [][(/\ out.op = "set_target_temperature"
           /\ out.res = "ok"
           /\ out'.op = "_handle_temperature_notification"
           /\ out'.data = out.data)
            => current_temperature' - out.arg[1] \in -1..1]_vars

\* C27 witness: 230 degrees has been written as FC 08 and read back from
\* these bytes as 230 degrees
C27_Witness ==
    /\ out.op = "_handle_temperature_notification"
    /\ out.data = <<252, 8>>
    /\ target_temperature = Deg(230)
    /\ current_temperature = Deg(230)

\* an attempt of connect creates a client in this step
CreatesClient ==
    \E o \in LinkOutcomes \ {"not_found"} : ConnectTry(o)

\* C28: connect creates a client only when the API holds no client that is
\* still connected, so that the device never has two live connections, and
\* the API holds one client handle or none.
C28_OneLiveConnection ==
    /\ [](client \in {"none", "client"})
    /\ [][CreatesClient => ~(client # "none" /\ client_conn)]_vars

\* C29: between two consecutive attempts of a connect call the clean-up
\* runs: it closes the client of the failed attempt if that client still
\* reports connected and clears the handle, so that every attempt after the
\* first begins with no client handle.
C29_CleanupBetweenAttempts ==
    /\ [](pc = "try" /\ attempt > 0 => client = "none" /\ ~client_conn)
    /\ [][(pc = "cleanup" /\ pc' # "cleanup")
            => /\ client' = "none"
               /\ ~client_conn'
               /\ pc' = "sleep"
                     => out'.io = IF client # "none" /\ client_conn
                                  THEN <<"disconnect">> ELSE <<>>]_vars

\* C29 witness: the first of several attempts has failed with its client
\* connected; the clean-up has closed that client and cleared the handle,
\* and the call waits before its next attempt
C29_Witness ==
    /\ pc = "sleep"
    /\ attempt = 0
    /\ last_err = "bleak_error"
    /\ out.op = "connect_cleanup"
    /\ out.io = <<"disconnect">>
    /\ client = "none"

\* C30: the interval a successful poll cycle sets is the table row of the
\* snapshot that this cycle returns, not the row of the snapshot of an
\* earlier cycle.
C30_IntervalFromLatest ==
    [][(/\ Tracked
        /\ cycle'.res = "snapshot"
        /\ DataCurrent(coord_data') # Null
        /\ DataTarget(coord_data') # Null)
        => update_interval' =
              TableRow(DataHeat(coord_data'), DataFan(coord_data'),
                       DataCurrent(coord_data'), DataTarget(coord_data'))]_vars

\* the four switch operations of the API
SwitchOps == {"set_heat_on", "set_heat_off", "set_fan_on", "set_fan_off"}

\* C31: a switch operation (set_heat_on, set_heat_off, set_fan_on,
\* set_fan_off) whose GATT write fails raises ConnectionError and leaves the
\* cached heat_on and fan_on as they were before the call.
C31_RevertsToPrior ==
    [][(/\ out'.op \in SwitchOps
        /\ out'.io = <<"write">>
        /\ out'.res # "ok")
        => /\ out'.res = "ConnectionError"
           /\ heat_on' = heat_on
           /\ fan_on' = fan_on]_vars

\* C32: whenever connect ends without success, by raising ConnectionError or
\* by returning False, the API holds no client handle and the connected
\* flag is false.
C32_FailedConnectLeavesNothing ==
    (out.op = "connect" /\ out.res \in {"ConnectionError", "False"})
        => /\ client = "none"
           /\ ~flag

\* C33: on every snapshot the coordinator can hold, the disconnected
\* snapshot with its null temperatures included, the interval computation
\* returns one of 1, 2, 3, 5 and does not raise; so a poll cycle that runs on
\* a connected device after a disconnected snapshot returns a snapshot.
C33_IntervalNeverRaises ==
    /\ [](GetDynamicUpdateInterval(coord_data) \in {1, 2, 3, 5})
    /\ [][(/\ PollAt("state")
           /\ is_connected
           /\ coord_data.kind = "disconnected"
           /\ cycle' # cycle)
            => /\ cycle'.res = "snapshot"
               /\ coord_data'.kind = "snapshot"]_vars

\* C34: a session that is open when the temperature falls gradually from
\* above 80 to below 50, through readings between 50 and 80 with the fan
\* off, is closed in the end with a session_ended event, so that the next
\* heat-up (a reading above 60 after a reading below 50, target above 100)
\* starts a new session.
C34_ColdSessionEnds ==
    /\ [](session_start_time # Null => <>(session_start_time = Null))
    /\ [][(/\ Tracked
           /\ last_temp # Null
           /\ last_temp < Deg(50)
           /\ current_temp > Deg(60)
           /\ target_temp > Deg(100))
            => Count(cycle'.events, "session_started") = 1]_vars

\* C35: no poll cycle both starts and ends a session: a cycle never fires
\* session_started and session_ended together.
C35_NoStartAndEnd ==
    [][Tracked =>
        ~(/\ Count(cycle'.events, "session_started") >= 1
          /\ Count(cycle'.events, "session_ended") >= 1)]_vars

\* C36: a poll cycle whose reconnect fails ends with the disconnected
\* snapshot and leaves the session tracking as it was: session_start_time,
\* the last temperatures and fan state, the durations, the session counters
\* and the device-information counter are unchanged and no session or fan
\* event is fired, so a session that was open is still open.
C36_FailedReconnectKeepsTracking ==
    [][(PollAt("reconnect") /\ out.res = "ConnectionError" /\ cycle' # cycle)
        => /\ cycle'.res = "disconnected"
           /\ cycle'.events = <<>>
           /\ bus_last' = bus_last
           /\ session_start_time' = session_start_time
           /\ last_temp' = last_temp
           /\ last_target_temp' = last_target_temp
           /\ last_fan_state' = last_fan_state
           /\ last_session_end_time' = last_session_end_time
           /\ session_durations' = session_durations
           /\ sessions_today' = sessions_today
           /\ total_sessions' = total_sessions
           /\ device_info_counter' = device_info_counter
           /\ cached_device_info' = cached_device_info]_vars

\* C36 witness: the reconnect of a cycle has failed while a session was
\* open; the cycle has ended with the disconnected snapshot and the session
\* is still open
C36_Witness ==
    /\ poll_pc = "idle"
    /\ cycle.began = "disconnected"
    /\ cycle.calls = <<"connect">>
    /\ cycle.res = "disconnected"
    /\ coord_data = DisconnectedSnapshot
    /\ session_start_time # Null
    /\ total_sessions = 1
    /\ last_temp # Null

\* C37: in every state total_sessions is the number of session_started
\* events fired, the number of session_ended events fired is total_sessions
\* less one while a session is open and total_sessions otherwise, and
\* sessions_today is at most total_sessions
C37_CountersMatchEvents ==
    /\ total_sessions = bus_last.started
    /\ bus_last.ended = total_sessions
                            - (IF session_start_time # Null THEN 1 ELSE 0)
    /\ sessions_today <= total_sessions

\* two sessions were started, the first has ended, the second is open, and
\* the day changed in between
C37_Witness ==
    /\ poll_pc = "idle"
    /\ total_sessions = 2
    /\ bus_last.started = 2
    /\ bus_last.ended = 1
    /\ session_start_time # Null
    /\ sessions_today = 1

\* C38: after a status notification of at least two bytes has been handled,
\* the cached heat_on and fan_on are the bits decoded from it, with or without
\* a registered state-change callback
C38_PushUpdatesCache ==
    (out.op = "_handle_status_notification" /\ StatusHasData(out.data))
        => /\ heat_on = DecodeHeat(LE16(out.data))
           /\ fan_on = DecodeFan(LE16(out.data))

\* the timer task i has ended: it ran to its end, or it was cancelled
TimerOver(i) ==
    timers[i] \in {"done", "failed", "cancelled", "cancelled_late"}

\* C39: a timer task created by a fan-on with a duration, unless it is
\* cancelled first, calls set_fan_off when its delay is over and, once the
\* write has succeeded, requests the refresh and is done; when the fan-off
\* fails the task ends with the error kept inside it: no entity action ends
\* with it, no write is left in flight and the task never runs again
C39_TimerTurnsOff ==
    /\ \A i \in 1..MaxTimers : [](timers[i] # "none" => <>TimerOver(i))
    /\ [][\A i \in 1..MaxTimers :
            /\ (timers[i] = "none" /\ timers'[i] # "none")
                 => /\ timers'[i] = "sleeping"
                    /\ ent_out'.kind = "fan_on_timer"
                    /\ ent_out'.res = "done"
            /\ (timers[i] = "sleeping" /\ timers'[i] # "sleeping")
                 => \/ timers'[i] = "cancelled"
                    \/ timers'[i] = "writing" /\ <<"timer", i>> \in gatt'
                    \/ /\ timers'[i] = "failed"
                       /\ out'.op = "set_fan_off"
                       /\ out'.res = "ConnectionError"
            /\ (timers[i] = "writing" /\ timers'[i] # "writing")
                 => \/ timers'[i] = "cancelled_late"
                    \/ /\ out'.op = "set_fan_off"
                       /\ out'.io = <<"write">>
                       /\ timers'[i] = IF out'.res = "ok" THEN "settling"
                                       ELSE "failed"
            /\ (timers[i] = "settling" /\ timers'[i] # "settling")
                 => timers'[i] \in {"done", "cancelled_late"}
            /\ (timers[i] # "failed" /\ timers'[i] = "failed")
                 => /\ actions' = actions
                    /\ ent_out' = ent_out
                    /\ <<"timer", i>> \notin gatt'
            /\ TimerOver(i) => timers'[i] = timers[i]]_vars

\* C39 witness: the first timer's fan-off write failed and the task ended;
\* the second timer, scheduled afterwards, has turned the fan off and
\* requested the refresh
C39_Witness ==
    /\ timers[1] = "failed"
    /\ timers[2] = "done"
    /\ out.op = "set_fan_off"
    /\ out.res = "ok"
    /\ ~fan_on
    /\ gatt = {}

====
